---- MODULE Spec2Model ----
(***************************************************************************)
(* Change-detection and notification-dispatch pipeline of lightbot:        *)
(* interval algebra and hashing (utils.py), the SQLite state store         *)
(* (db.py), the ingestion loop and the notification worker (main.py) and   *)
(* the bot commands that write the users table (bot.py).                   *)
(*                                                                         *)
(* Text values are modelled structurally:                                  *)
(*   "HH:MM"          <<h, m>>                                             *)
(*   "HH:MM-HH:MM"    [a |-> <<h,m>>, b |-> <<h,m>>, sep |-> "en" | "hy"]  *)
(*                    ("en" is the en dash, "hy" the hyphen, anything      *)
(*                    else a string without a separator)                   *)
(*   SHA-256 digest   the canonical text it is computed from (the digest   *)
(*                    is taken to be collision free)                       *)
(*   ISO timestamp    [kind |-> "iso", t |-> seconds]                      *)
(*   "DD.MM.YYYY"     the day's ordinal number                             *)
(***************************************************************************)
EXTENDS Integers, Sequences, FiniteSets, TLC

VARIABLES
    users,                \* table users: tg_user_id -> row
    group_state,          \* table group_state: group_code -> row (today)
    group_state_tomorrow, \* table group_state_tomorrow: group_code -> row
    notify_queue,         \* asyncio.Queue of notification jobs
    scrape_pc,            \* scrape_loop_task: "fetch" (awaiting to_thread) | "sleep"
    snapshot,             \* scrape_loop_task: the snapshot of the latest iteration
    storage_fault,        \* the storage error (if any) that hit the latest iteration
    dropped,              \* history: the jobs the latest iteration dropped on a full queue
    repeated,             \* history: the latest two iterations read the same snapshot
    worker_pc,            \* notification_worker: "get" | "send" | "inflight" | "pause"
    job,                  \* notification_worker: the job being processed
    subscribers,          \* notification_worker: the resolved subscriber list
    idx,                  \* notification_worker: position in the subscriber list
    sent_count,           \* notification_worker: successful sends of this job
    attempts,             \* history: package calls awaited for the current job
    last_outcome,         \* history: how the latest of them ended
    now,                  \* wall clock, seconds
    rl,                   \* history: the latest can_send_message call and what followed
    calc                  \* a call of a pure function of utils.py: arguments and result

vars == <<users, group_state, group_state_tomorrow, notify_queue, scrape_pc, snapshot,
          storage_fault, dropped, repeated, worker_pc, job, subscribers, idx, sent_count,
          attempts, last_outcome, now, rl, calc>>

(***************************************************************************)
(* utils.py: time and interval algebra                                     *)
(***************************************************************************)

DAY_MINUTES == 1440

Range(s) == {s[i] : i \in 1..Len(s)}

Max2(a, b) == IF a >= b THEN a ELSE b

\* utils.time_to_minutes: "24:00" is 1440, otherwise h*60+m
time_to_minutes(time_str) ==
    IF time_str[1] = 24 /\ time_str[2] = 0 THEN DAY_MINUTES
    ELSE time_str[1] * 60 + time_str[2]

\* minutes_to_time with "minutes >= 1439": 23:59 renders as "24:00" too
minutes_to_time_early(minutes) ==
    IF minutes >= DAY_MINUTES - 1 THEN <<24, 0>>
    ELSE <<minutes \div 60, minutes % 60>>

\* utils.minutes_to_time: 1440 and above render as "24:00"
minutes_to_time(minutes) ==
    IF minutes >= DAY_MINUTES THEN <<24, 0>>
    ELSE <<minutes \div 60, minutes % 60>>

\* sorted(intervals, key=lambda x: x[0]): stable insertion by start
RECURSIVE InsertByStart(_, _)
InsertByStart(sorted, iv) ==
    IF sorted = <<>> THEN <<iv>>
    ELSE IF Head(sorted)[1] <= iv[1]
         THEN <<Head(sorted)>> \o InsertByStart(Tail(sorted), iv)
         ELSE <<iv>> \o sorted

RECURSIVE SortByStart(_)
SortByStart(intervals) ==
    IF intervals = <<>> THEN <<>>
    ELSE InsertByStart(SortByStart(SubSeq(intervals, 1, Len(intervals) - 1)),
                       intervals[Len(intervals)])

\* MergeFold with "merged[-1][1] > start": touching intervals are not glued
RECURSIVE MergeFold_strict(_, _)
MergeFold_strict(merged, rest) ==
    IF rest = <<>> THEN merged
    ELSE LET iv == Head(rest)
             n  == Len(merged)
         IN IF n > 0 /\ merged[n][2] > iv[1]
            THEN MergeFold_strict(
                    [merged EXCEPT ![n] = <<merged[n][1], Max2(merged[n][2], iv[2])>>],
                    Tail(rest))
            ELSE MergeFold_strict(Append(merged, iv), Tail(rest))

\* the fold of merge_intervals over the sorted list
RECURSIVE MergeFold(_, _)
MergeFold(merged, rest) ==
    IF rest = <<>> THEN merged
    ELSE LET iv == Head(rest)
             n  == Len(merged)
         IN IF n > 0 /\ merged[n][2] >= iv[1]
            THEN MergeFold([merged EXCEPT ![n] = <<merged[n][1], Max2(merged[n][2], iv[2])>>],
                           Tail(rest))
            ELSE MergeFold(Append(merged, iv), Tail(rest))

\* utils.merge_intervals
merge_intervals(intervals) ==
    IF intervals = <<>> THEN <<>>
    ELSE MergeFold(<<>>, SortByStart(intervals))

\* InvertFold without the "if current < 1440" tail after the loop
RECURSIVE InvertFold_no_tail(_, _, _)
InvertFold_no_tail(on, current, rest) ==
    IF rest = <<>> THEN on
    ELSE LET iv == Head(rest)
         IN InvertFold_no_tail(IF current < iv[1] THEN Append(on, <<current, iv[1]>>) ELSE on,
                               Max2(current, iv[2]), Tail(rest))

\* the loop of invert_intervals: on-intervals collected so far, and the cursor
RECURSIVE InvertFold(_, _, _)
InvertFold(on, current, rest) ==
    IF rest = <<>>
    THEN IF current < DAY_MINUTES THEN Append(on, <<current, DAY_MINUTES>>) ELSE on
    ELSE LET iv == Head(rest)
         IN InvertFold(IF current < iv[1] THEN Append(on, <<current, iv[1]>>) ELSE on,
                       Max2(current, iv[2]), Tail(rest))

\* invert_intervals without the call of merge_intervals
invert_intervals_unmerged(off_intervals) ==
    IF off_intervals = <<>> THEN << <<0, DAY_MINUTES>> >>
    ELSE InvertFold(<<>>, 0, off_intervals)

\* utils.invert_intervals
invert_intervals(off_intervals) ==
    IF off_intervals = <<>> THEN << <<0, DAY_MINUTES>> >>
    ELSE InvertFold(<<>>, 0, merge_intervals(off_intervals))

\* utils.intervals_to_strings: always the en dash
intervals_to_strings(intervals) ==
    [i \in 1..Len(intervals) |->
        [a |-> minutes_to_time(intervals[i][1]),
         b |-> minutes_to_time(intervals[i][2]),
         sep |-> "en"]]

\* the parse loop of normalize_intervals: entries without a separator are skipped
RECURSIVE ParseAll(_)
ParseAll(strs) ==
    IF strs = <<>> THEN <<>>
    ELSE LET s == Head(strs)
         IN IF s.sep \in {"en", "hy"}
            THEN << <<time_to_minutes(s.a), time_to_minutes(s.b)>> >> \o ParseAll(Tail(strs))
            ELSE ParseAll(Tail(strs))

\* normalize_intervals without the call of merge_intervals
normalize_intervals_unmerged(intervals) ==
    IF intervals = <<>> THEN <<>>
    ELSE LET parsed == ParseAll(intervals)
         IN IF parsed = <<>> THEN <<>>
            ELSE intervals_to_strings(parsed)

\* utils.normalize_intervals
normalize_intervals(intervals) ==
    IF intervals = <<>> THEN <<>>
    ELSE LET parsed == ParseAll(intervals)
         IN IF parsed = <<>> THEN <<>>
            ELSE intervals_to_strings(merge_intervals(parsed))

\* utils.compute_group_hash: the digest of the canonical text
compute_group_hash(schedule_date, off_intervals, on_intervals, maybe_intervals) ==
    [date  |-> schedule_date,
     OFF   |-> normalize_intervals(off_intervals),
     ON    |-> normalize_intervals(on_intervals),
     MAYBE |-> normalize_intervals(maybe_intervals)]

(***************************************************************************)
(* scraper.py: what a fetched snapshot looks like                          *)
(***************************************************************************)

Absent == [present |-> FALSE]

\* group_entry without the call of merge_intervals: OFF as the line gives it
group_entry_unmerged(off_intervals_minutes) ==
    [off   |-> intervals_to_strings(off_intervals_minutes),
     on    |-> intervals_to_strings(invert_intervals(off_intervals_minutes)),
     maybe |-> <<>>]

\* scraper.parse_groups_from_section_lines, one group line: OFF merged, ON its
\* complement, MAYBE empty
group_entry(off_intervals_minutes) ==
    LET off_merged == merge_intervals(off_intervals_minutes)
    IN [off   |-> intervals_to_strings(off_merged),
        on    |-> intervals_to_strings(invert_intervals(off_merged)),
        maybe |-> <<>>]

\* a slot of the snapshot: {"schedule_date": ..., "groups": {...}}; groups is the
\* dict in page order, every valid group exactly once
slot_snapshot(schedule_date, order, entries) ==
    [present |-> TRUE,
     schedule_date |-> schedule_date,
     groups |-> [i \in 1..Len(order) |-> [group_code |-> order[i], intervals |-> entries[order[i]]]]]

\* scraper.parse_schedule_text: today only, tomorrow only (single section) or both
\* (today's date before tomorrow's); never both absent. tables: the possible
\* contents of a section, group_code -> entry
parse_schedule_text(today_dates, tomorrow_dates, orders, tables) ==
    LET slots(dates) == {slot_snapshot(d, o, e) : d \in dates, o \in orders, e \in tables}
    IN {[present |-> TRUE, today |-> t, tomorrow |-> Absent] : t \in slots(today_dates)}
       \cup {[present |-> TRUE, today |-> Absent, tomorrow |-> t] : t \in slots(tomorrow_dates)}
       \cup {[present |-> TRUE, today |-> p[1], tomorrow |-> p[2]] :
                p \in {p \in slots(today_dates) \X slots(tomorrow_dates) :
                          p[1].schedule_date < p[2].schedule_date}}

(***************************************************************************)
(* db.py: the group_state tables                                           *)
(***************************************************************************)

\* db.get_group_state
get_group_state(table, group_code) == table[group_code]

\* the variant of the upsert that forgets "hash = excluded.hash"
save_group_state_keeps_hash(table, group_code, schedule_date, hash_value, data_json) ==
    [table EXCEPT ![group_code] =
        [present |-> TRUE, schedule_date |-> schedule_date,
         hash |-> IF table[group_code].present THEN table[group_code].hash ELSE hash_value,
         data_json |-> data_json]]

\* the variant of the write without a key: every row of the table is overwritten
save_group_state_every_row(table, group_code, schedule_date, hash_value, data_json) ==
    [g \in DOMAIN table |->
        IF table[g].present \/ g = group_code
        THEN [present |-> TRUE, schedule_date |-> schedule_date, hash |-> hash_value,
              data_json |-> data_json]
        ELSE table[g]]

\* the variant of the upsert that forgets "data_json = excluded.data_json"
save_group_state_keeps_data(table, group_code, schedule_date, hash_value, data_json) ==
    [table EXCEPT ![group_code] =
        [present |-> TRUE, schedule_date |-> schedule_date, hash |-> hash_value,
         data_json |-> IF table[group_code].present THEN table[group_code].data_json
                       ELSE data_json]]

\* db.save_group_state: upsert of the one row keyed by group_code (updated_at, which
\* nothing reads, is left out)
save_group_state(table, group_code, schedule_date, hash_value, data_json) ==
    [table EXCEPT ![group_code] =
        [present |-> TRUE, schedule_date |-> schedule_date, hash |-> hash_value,
         data_json |-> data_json]]

\* db.get_group_state_tomorrow: the same read on table group_state_tomorrow
get_group_state_tomorrow(table, group_code) == table[group_code]

\* db.save_group_state_tomorrow: the same upsert on table group_state_tomorrow
save_group_state_tomorrow(table, group_code, schedule_date, hash_value, data_json) ==
    [table EXCEPT ![group_code] =
        [present |-> TRUE, schedule_date |-> schedule_date, hash |-> hash_value,
         data_json |-> data_json]]

(***************************************************************************)
(* main.py: the notification queue                                         *)
(***************************************************************************)

NOTIFICATION_QUEUE_MAXSIZE == 2

\* asyncio.Queue.full with maxsize 0: never full
full_unbounded(q) == FALSE

\* asyncio.Queue.full
full(q) == IF NOTIFICATION_QUEUE_MAXSIZE <= 0 THEN FALSE
           ELSE Len(q) >= NOTIFICATION_QUEUE_MAXSIZE

\* asyncio.Queue.put_nowait (called only when not full)
put_nowait(q, item) == Append(q, item)

\* enqueue_changed with the break after the put: the loop ends after one job
enqueue_changed_breaks_early(q, jobs) ==
    IF jobs = <<>> THEN q
    ELSE IF full(q) THEN q
    ELSE put_nowait(q, Head(jobs))

\* main.py 220-233 / 270-284: for ... in changed: if full: break; put_nowait(job)
RECURSIVE enqueue_changed(_, _)
enqueue_changed(q, jobs) ==
    IF jobs = <<>> THEN q
    ELSE IF full(q) THEN q
    ELSE enqueue_changed(put_nowait(q, Head(jobs)), Tail(jobs))

(***************************************************************************)
(* main.py: scrape_loop_task                                               *)
(***************************************************************************)

NoFault == [slot |-> "none", at |-> 0]

\* the storage errors that can hit an iteration over this snapshot: the read or the
\* write of the last group of one slot raises, after the groups before it went through
Faults(snap) ==
    {NoFault}
    \cup (IF snap.present /\ snap.today.present
          THEN {[slot |-> "today", at |-> Len(snap.today.groups)]} ELSE {})
    \cup (IF snap.present /\ snap.tomorrow.present
          THEN {[slot |-> "tomorrow", at |-> Len(snap.tomorrow.groups)]} ELSE {})

\* main.py 212-215 / 262-265: json.dumps({"off": ..., "on": ..., "maybe": ...})
data_json_of(intervals) ==
    [off |-> intervals.off, on |-> intervals.on, maybe |-> intervals.maybe]

\* detect_today with the storage calls of a group wrapped in their own try/except
\* that logs and goes on: the group whose write failed is reported as changed
RECURSIVE detect_today_swallows(_, _, _, _, _)
detect_today_swallows(acc, schedule_date, groups, i, fault_at) ==
    IF i > Len(groups) THEN acc
    ELSE LET group_code == groups[i].group_code
             intervals  == groups[i].intervals
             new_hash   == compute_group_hash(schedule_date, intervals.off,
                                              intervals.on, intervals.maybe)
             old_state  == get_group_state(acc.table, group_code)
             reported   == Append(acc.changed,
                              [kind |-> "today", group_code |-> group_code,
                               schedule_date |-> schedule_date,
                               on_intervals |-> intervals.on,
                               off_intervals |-> intervals.off,
                               maybe_intervals |-> intervals.maybe])
         IN IF i = fault_at
            THEN detect_today_swallows([acc EXCEPT !.changed = reported],
                                       schedule_date, groups, i + 1, fault_at)
            ELSE IF old_state.present /\ old_state.hash = new_hash
            THEN detect_today_swallows(acc, schedule_date, groups, i + 1, fault_at)
            ELSE detect_today_swallows(
                    [acc EXCEPT
                       !.table = save_group_state(acc.table, group_code, schedule_date,
                                                  new_hash, data_json_of(intervals)),
                       !.changed = reported],
                    schedule_date, groups, i + 1, fault_at)

\* main.py 197-217: the detection loop over today's groups from position i on.
\* acc = [table, changed, raised]; fault_at = the position whose storage call raises
RECURSIVE detect_today(_, _, _, _, _)
detect_today(acc, schedule_date, groups, i, fault_at) ==
    IF i > Len(groups) THEN acc
    ELSE LET group_code == groups[i].group_code
             intervals  == groups[i].intervals
             new_hash   == compute_group_hash(schedule_date, intervals.off,
                                              intervals.on, intervals.maybe)
             old_state  == get_group_state(acc.table, group_code)
         IN IF i = fault_at THEN [acc EXCEPT !.raised = TRUE]
            ELSE IF old_state.present /\ old_state.hash = new_hash
            THEN detect_today(acc, schedule_date, groups, i + 1, fault_at)
            ELSE detect_today(
                    [acc EXCEPT
                       !.table = save_group_state(acc.table, group_code, schedule_date,
                                                  new_hash, data_json_of(intervals)),
                       !.changed = Append(acc.changed,
                          [kind |-> "today", group_code |-> group_code,
                           schedule_date |-> schedule_date,
                           on_intervals |-> intervals.on,
                           off_intervals |-> intervals.off,
                           maybe_intervals |-> intervals.maybe])],
                    schedule_date, groups, i + 1, fault_at)

\* detect_tomorrow with is_first_for_this_date = (not old_state): the stored
\* schedule_date is not compared
RECURSIVE detect_tomorrow_ignores_date(_, _, _, _, _)
detect_tomorrow_ignores_date(acc, schedule_date, groups, i, fault_at) ==
    IF i > Len(groups) THEN acc
    ELSE LET group_code == groups[i].group_code
             intervals  == groups[i].intervals
             new_hash   == compute_group_hash(schedule_date, intervals.off,
                                              intervals.on, intervals.maybe)
             old_state  == get_group_state_tomorrow(acc.table, group_code)
             is_first_for_this_date == ~old_state.present
         IN IF i = fault_at THEN [acc EXCEPT !.raised = TRUE]
            ELSE IF old_state.present /\ old_state.hash = new_hash
            THEN detect_tomorrow_ignores_date(acc, schedule_date, groups, i + 1, fault_at)
            ELSE detect_tomorrow_ignores_date(
                    [acc EXCEPT
                       !.table = save_group_state_tomorrow(acc.table, group_code,
                                    schedule_date, new_hash, data_json_of(intervals)),
                       !.changed = Append(acc.changed,
                          [kind |-> "tomorrow", group_code |-> group_code,
                           schedule_date |-> schedule_date,
                           on_intervals |-> intervals.on,
                           off_intervals |-> intervals.off,
                           maybe_intervals |-> intervals.maybe,
                           is_first_for_this_date |-> is_first_for_this_date])],
                    schedule_date, groups, i + 1, fault_at)

\* main.py 244-267: the detection loop over tomorrow's groups
RECURSIVE detect_tomorrow(_, _, _, _, _)
detect_tomorrow(acc, schedule_date, groups, i, fault_at) ==
    IF i > Len(groups) THEN acc
    ELSE LET group_code == groups[i].group_code
             intervals  == groups[i].intervals
             new_hash   == compute_group_hash(schedule_date, intervals.off,
                                              intervals.on, intervals.maybe)
             old_state  == get_group_state_tomorrow(acc.table, group_code)
             is_first_for_this_date ==
                 (~old_state.present) \/ (old_state.schedule_date # schedule_date)
         IN IF i = fault_at THEN [acc EXCEPT !.raised = TRUE]
            ELSE IF old_state.present /\ old_state.hash = new_hash
            THEN detect_tomorrow(acc, schedule_date, groups, i + 1, fault_at)
            ELSE detect_tomorrow(
                    [acc EXCEPT
                       !.table = save_group_state_tomorrow(acc.table, group_code,
                                    schedule_date, new_hash, data_json_of(intervals)),
                       !.changed = Append(acc.changed,
                          [kind |-> "tomorrow", group_code |-> group_code,
                           schedule_date |-> schedule_date,
                           on_intervals |-> intervals.on,
                           off_intervals |-> intervals.off,
                           maybe_intervals |-> intervals.maybe,
                           is_first_for_this_date |-> is_first_for_this_date])],
                    schedule_date, groups, i + 1, fault_at)

\* history: the jobs of changed that enqueue_changed did not put on q
RECURSIVE dropped_of(_, _)
dropped_of(q, jobs) ==
    IF jobs = <<>> THEN {}
    ELSE IF full(q) THEN {[kind |-> jobs[i].kind, group_code |-> jobs[i].group_code] :
                             i \in 1..Len(jobs)}
    ELSE dropped_of(put_nowait(q, Head(jobs)), Tail(jobs))

\* run_iteration with put_nowait inside the detection loop, right after each save:
\* the jobs of the groups detected before a storage error are already on the queue
run_iteration_enqueues_in_loop(snap, fault, gs, gst, q) ==
    LET start == [table |-> gs, changed |-> <<>>, raised |-> FALSE]
        t  == IF snap.today.present
              THEN detect_today(start, snap.today.schedule_date, snap.today.groups, 1,
                                IF fault.slot = "today" THEN fault.at ELSE 0)
              ELSE start
        q1 == enqueue_changed(q, t.changed)
        start2 == [table |-> gst, changed |-> <<>>, raised |-> FALSE]
        u  == IF ~t.raised /\ snap.tomorrow.present
              THEN detect_tomorrow(start2, snap.tomorrow.schedule_date,
                                   snap.tomorrow.groups, 1,
                                   IF fault.slot = "tomorrow" THEN fault.at ELSE 0)
              ELSE start2
        q2 == enqueue_changed(q1, u.changed)
    IN [group_state |-> t.table, group_state_tomorrow |-> u.table, notify_queue |-> q2,
        raised |-> t.raised \/ u.raised,
        changed_today |-> t.changed, changed_tomorrow |-> u.changed,
        dropped |-> dropped_of(q, t.changed) \cup dropped_of(q1, u.changed)]

\* main.py 183-289: one iteration over a fetched snapshot, from the return of
\* to_thread to the end of the try block. No await in between: one atomic step.
run_iteration(snap, fault, gs, gst, q) ==
    LET start == [table |-> gs, changed |-> <<>>, raised |-> FALSE]
        t  == IF snap.today.present
              THEN detect_today(start, snap.today.schedule_date, snap.today.groups, 1,
                                IF fault.slot = "today" THEN fault.at ELSE 0)
              ELSE start
        q1 == IF t.raised THEN q ELSE enqueue_changed(q, t.changed)
        start2 == [table |-> gst, changed |-> <<>>, raised |-> FALSE]
        u  == IF ~t.raised /\ snap.tomorrow.present
              THEN detect_tomorrow(start2, snap.tomorrow.schedule_date,
                                   snap.tomorrow.groups, 1,
                                   IF fault.slot = "tomorrow" THEN fault.at ELSE 0)
              ELSE start2
        q2 == IF u.raised THEN q1 ELSE enqueue_changed(q1, u.changed)
    IN [group_state |-> t.table, group_state_tomorrow |-> u.table, notify_queue |-> q2,
        raised |-> t.raised \/ u.raised,
        changed_today |-> t.changed, changed_tomorrow |-> u.changed,
        dropped |-> (IF t.raised THEN {} ELSE dropped_of(q, t.changed))
                    \cup (IF u.raised THEN {} ELSE dropped_of(q1, u.changed))]

(***************************************************************************)
(* db.py: the users table                                                  *)
(***************************************************************************)

NULL == "NULL"

SqlNull == [kind |-> "null"]

IsoTime(t) == [kind |-> "iso", t |-> t]

\* db.create_or_update_user: INSERT ... ON CONFLICT(tg_user_id) DO UPDATE SET
\* tg_chat_id, group_code
create_or_update_user(table, tg_user_id, tg_chat_id, group_code) ==
    [table EXCEPT ![tg_user_id] =
        IF table[tg_user_id].present
        THEN [table[tg_user_id] EXCEPT !.tg_chat_id = tg_chat_id, !.group_code = group_code]
        ELSE [present |-> TRUE, tg_chat_id |-> tg_chat_id, group_code |-> group_code,
              is_subscribed |-> TRUE, last_sent_at |-> SqlNull]]

\* db.set_subscription: UPDATE users SET is_subscribed = ? WHERE tg_user_id = ?
set_subscription(table, tg_user_id, is_subscribed) ==
    [table EXCEPT ![tg_user_id] =
        IF table[tg_user_id].present
        THEN [table[tg_user_id] EXCEPT !.is_subscribed = is_subscribed]
        ELSE table[tg_user_id]]

\* db.update_last_sent_at: UPDATE users SET last_sent_at = now WHERE tg_user_id = ?
update_last_sent_at(table, tg_user_id, ts) ==
    [table EXCEPT ![tg_user_id] =
        IF table[tg_user_id].present
        THEN [table[tg_user_id] EXCEPT !.last_sent_at = IsoTime(ts)]
        ELSE table[tg_user_id]]

\* can_send_message without the interval test: a stored timestamp never denies
can_send_message_no_limit(table, tg_user_id, max_per_minute, ts) ==
    LET row == table[tg_user_id]
    IN IF ~row.present \/ row.last_sent_at.kind \in {"null", "empty"} THEN TRUE
       ELSE IF row.last_sent_at.kind # "iso" THEN TRUE
       ELSE IF max_per_minute = 0 THEN TRUE
       ELSE TRUE

\* can_send_message with "diff_seconds > min_interval"
can_send_message_strict(table, tg_user_id, max_per_minute, ts) ==
    LET row == table[tg_user_id]
    IN IF ~row.present \/ row.last_sent_at.kind \in {"null", "empty"} THEN TRUE
       ELSE IF row.last_sent_at.kind # "iso" THEN TRUE
       ELSE IF max_per_minute = 0 THEN TRUE
       ELSE (ts - row.last_sent_at.t) * max_per_minute > 60

\* can_send_message with "return False" in the except clause
can_send_message_fail_closed(table, tg_user_id, max_per_minute, ts) ==
    LET row == table[tg_user_id]
    IN IF ~row.present \/ row.last_sent_at.kind \in {"null", "empty"} THEN TRUE
       ELSE IF row.last_sent_at.kind # "iso" THEN FALSE
       ELSE IF max_per_minute = 0 THEN FALSE
       ELSE (ts - row.last_sent_at.t) * max_per_minute >= 60

\* db.can_send_message. datetime.fromisoformat raises on text that is no timestamp
\* and 60.0 / 0 raises: both are caught and answer True.
\* diff_seconds >= 60.0 / max_per_minute, in integers: diff * max_per_minute >= 60.
can_send_message(table, tg_user_id, max_per_minute, ts) ==
    LET row == table[tg_user_id]
    IN IF ~row.present \/ row.last_sent_at.kind \in {"null", "empty"} THEN TRUE
       ELSE IF row.last_sent_at.kind # "iso" THEN TRUE
       ELSE IF max_per_minute = 0 THEN TRUE
       ELSE (ts - row.last_sent_at.t) * max_per_minute >= 60

\* the rows of a SELECT, in rowid (tg_user_id) order
RECURSIVE select_rows(_, _)
select_rows(table, ids) ==
    IF ids = {} THEN <<>>
    ELSE LET m == CHOOSE x \in ids : \A y \in ids : x <= y
         IN <<[tg_user_id |-> m, tg_chat_id |-> table[m].tg_chat_id]>>
            \o select_rows(table, ids \ {m})

\* the query without "AND is_subscribed = 1"
get_users_for_group(table, group_code) ==
    select_rows(table, {u \in DOMAIN table :
        /\ table[u].present
        /\ table[u].group_code # NULL /\ table[u].group_code = group_code})

\* db.get_subscribed_users_for_group:
\* SELECT * FROM users WHERE group_code = ? AND is_subscribed = 1
\* (in SQL nothing equals NULL, a NULL parameter included)
get_subscribed_users_for_group(table, group_code) ==
    select_rows(table, {u \in DOMAIN table :
        /\ table[u].present
        /\ table[u].group_code # NULL /\ table[u].group_code = group_code
        /\ table[u].is_subscribed})

(***************************************************************************)
(* The bounded universe                                                    *)
(***************************************************************************)

\* two of the twelve utils.VALID_GROUPS
Groups == {"1.1", "1.2"}

\* page orders of the group lines
GroupOrders == {<<"1.1", "1.2">>}

Slots == {"today", "tomorrow"}

\* tg_user_id of the users that talk to the bot
Users == {1, 2}

\* OFF intervals (minutes) as scraper.extract_group_off_intervals reads them from
\* one group line: 10:00-12:00, and 10:00-12:00 followed by 12:00-14:00
PageOffLists == { << <<600, 720>> >>, << <<600, 720>>, <<720, 840>> >> }

\* the OFF intervals of the groups whose line does not vary: 22:00-24:00
SteadyOffList == << <<1320, 1440>> >>

\* the contents of a section: group 1.1 varies over PageOffLists
SectionTables ==
    {[g \in Groups |-> IF g = "1.1" THEN group_entry(x) ELSE group_entry(SteadyOffList)] :
        x \in PageOffLists}

MAX_SEND_PER_MINUTE == 1

\* seconds asyncio.wait_for gives one package call
NOTIFY_SEND_TIMEOUT_SECONDS == 25

NoJob == [present |-> FALSE]

NoCall == [op |-> "none"]

\* rl: phase "idle" | "denied" | "sending" | "recorded" | "failed"; result, at and
\* max_per_minute of the latest can_send_message call; allowed_at, the time of the
\* latest call that answered True (-1: none), allowed_limit, its max_per_minute,
\* and recorded, whether update_last_sent_at followed it
RlIdle == [phase |-> "idle", result |-> FALSE, max_per_minute |-> 0,
           allowed_at |-> -1, allowed_limit |-> 0, recorded |-> FALSE]

(***************************************************************************)
(* Initial state: main() has created the tables and the queue and started  *)
(* the three tasks                                                         *)
(***************************************************************************)

Init ==
    /\ users = [u \in Users |-> Absent]
    /\ group_state = [g \in Groups |-> Absent]
    /\ group_state_tomorrow = [g \in Groups |-> Absent]
    /\ notify_queue = <<>>
    /\ scrape_pc = "fetch"
    /\ snapshot = Absent
    /\ storage_fault = NoFault
    /\ dropped = {}
    /\ repeated = FALSE
    /\ worker_pc = "get"
    /\ job = NoJob
    /\ subscribers = <<>>
    /\ idx = 0
    /\ sent_count = 0
    /\ attempts = 0
    /\ last_outcome = "none"
    /\ now = 0
    /\ rl = RlIdle
    /\ calc = NoCall

(***************************************************************************)
(* main.py: scrape_loop_task, one action per stretch between awaits        *)
(***************************************************************************)

worker_vars == <<worker_pc, job, subscribers, idx, sent_count, attempts, last_outcome>>

\* ScrapeNoSnapshot with "return" in place of "continue": the task ends
ScrapeNoSnapshot_returns ==
    /\ scrape_pc = "fetch"
    /\ snapshot' = Absent
    /\ storage_fault' = NoFault
    /\ scrape_pc' = "done"
    /\ dropped' = {}
    /\ repeated' = FALSE
    /\ UNCHANGED <<users, group_state, group_state_tomorrow, notify_queue,
                   worker_vars, now, rl, calc>>

\* main.py 176-181: to_thread returns no snapshot; sleep and continue
ScrapeNoSnapshot ==
    /\ scrape_pc = "fetch"
    /\ snapshot' = Absent
    /\ storage_fault' = NoFault
    /\ scrape_pc' = "sleep"
    /\ dropped' = {}
    /\ repeated' = FALSE
    /\ UNCHANGED <<users, group_state, group_state_tomorrow, notify_queue,
                   worker_vars, now, rl, calc>>

\* IterationEffects with "await notify_queue.put(job)" in place of the full()
\* test and put_nowait: the pass waits until the queue has room for every job
IterationEffects_blocking(snap, fault, r) ==
    /\ scrape_pc = "fetch"
    /\ r.dropped = {}
    /\ group_state' = r.group_state
    /\ group_state_tomorrow' = r.group_state_tomorrow
    /\ notify_queue' = r.notify_queue
    /\ dropped' = r.dropped
    /\ snapshot' = snap
    /\ storage_fault' = fault
    /\ repeated' = (snap = snapshot /\ storage_fault = NoFault /\ fault = NoFault)
    /\ scrape_pc' = "sleep"
    /\ UNCHANGED <<users, worker_vars, now, rl, calc>>

\* main.py 183-295: what the pass that computed r leaves behind: the tables, the
\* queue, and the loop in its poll sleep (also after the except clause)
IterationEffects(snap, fault, r) ==
    /\ scrape_pc = "fetch"
    /\ group_state' = r.group_state
    /\ group_state_tomorrow' = r.group_state_tomorrow
    /\ notify_queue' = r.notify_queue
    /\ dropped' = r.dropped
    /\ snapshot' = snap
    /\ storage_fault' = fault
    /\ repeated' = (snap = snapshot /\ storage_fault = NoFault /\ fault = NoFault)
    /\ scrape_pc' = "sleep"
    /\ UNCHANGED <<users, worker_vars, now, rl, calc>>

\* main.py 176-295: to_thread returns a snapshot; detection and enqueueing run to
\* the poll sleep (or to the except clause when a storage call raises)
ScrapeIteration(snap, fault) ==
    /\ scrape_pc = "fetch"
    /\ snap.present
    /\ fault \in Faults(snap)
    /\ \E r \in {run_iteration(snap, fault, group_state, group_state_tomorrow,
                                 notify_queue)} :
          IterationEffects(snap, fault, r)

\* main.py 180 / 295: asyncio.sleep(POLL_INTERVAL_SECONDS) is over
ScrapeWake ==
    /\ scrape_pc = "sleep"
    /\ scrape_pc' = "fetch"
    /\ UNCHANGED <<users, group_state, group_state_tomorrow, notify_queue, snapshot,
                   storage_fault, dropped, repeated, worker_vars, now, rl, calc>>

(***************************************************************************)
(* main.py: notification_worker                                            *)
(***************************************************************************)

ingest_vars == <<group_state, group_state_tomorrow, scrape_pc, snapshot, storage_fault,
                 dropped, repeated>>

\* WorkerGet on a LifoQueue: get() returns the job put last
WorkerGet_lifo ==
    /\ worker_pc = "get"
    /\ notify_queue # <<>>
    /\ notify_queue' = SubSeq(notify_queue, 1, Len(notify_queue) - 1)
    /\ LET j == notify_queue[Len(notify_queue)]
           subs == get_subscribed_users_for_group(users, j.group_code)
       IN IF subs = <<>>
          THEN /\ UNCHANGED worker_vars
          ELSE /\ worker_pc' = "send"
               /\ job' = [j EXCEPT !.kind = j.kind] @@ [present |-> TRUE]
               /\ subscribers' = subs
               /\ idx' = 1
               /\ sent_count' = 0
               /\ attempts' = 0
               /\ last_outcome' = "none"
    /\ UNCHANGED <<users, ingest_vars, now, rl, calc>>

\* main.py 78-88, 139-143: queue.get() returns a job and the subscribers are
\* resolved; with no subscriber the job is done at once
WorkerGet ==
    /\ worker_pc = "get"
    /\ notify_queue # <<>>
    /\ notify_queue' = Tail(notify_queue)
    /\ LET j == Head(notify_queue)
           subs == get_subscribed_users_for_group(users, j.group_code)
       IN IF subs = <<>>
          THEN /\ UNCHANGED worker_vars
          ELSE /\ worker_pc' = "send"
               /\ job' = [j EXCEPT !.kind = j.kind] @@ [present |-> TRUE]
               /\ subscribers' = subs
               /\ idx' = 1
               /\ sent_count' = 0
               /\ attempts' = 0
               /\ last_outcome' = "none"
    /\ UNCHANGED <<users, ingest_vars, now, rl, calc>>

\* main.py 88, 140-143: resolving the subscribers raises a storage error; the outer
\* except logs it and the job is over
WorkerResolveFails ==
    /\ worker_pc = "get"
    /\ notify_queue # <<>>
    /\ notify_queue' = Tail(notify_queue)
    /\ UNCHANGED <<users, ingest_vars, worker_vars, now, rl, calc>>

\* bot.send_schedule_updated_package, up to its first await: the anti-spam check
\* of the subscriber, as bot.send_notification 390-392 makes it. TRUE: the send
\* goes out; FALSE: the subscriber is skipped, no message and no error
send_schedule_updated_package(table, user_id, max_per_minute, ts) ==
    can_send_message(table, user_id, max_per_minute, ts)

\* bot.send_schedule_tomorrow_updated_package, likewise
send_schedule_tomorrow_updated_package(table, user_id, max_per_minute, ts) ==
    can_send_message(table, user_id, max_per_minute, ts)

\* main.py 91-126: the package coroutine of the job's kind starts for
\* subscribers[idx]; it either skips the subscriber or lets the send go out
WorkerStartSend ==
    /\ worker_pc = "send"
    /\ LET user_id == subscribers[idx].tg_user_id
       IN IF (IF job.kind = "today"
              THEN send_schedule_updated_package(users, user_id, MAX_SEND_PER_MINUTE, now)
              ELSE send_schedule_tomorrow_updated_package(users, user_id,
                                                          MAX_SEND_PER_MINUTE, now))
          THEN /\ worker_pc' = "inflight"
               /\ UNCHANGED last_outcome
          ELSE /\ worker_pc' = "pause"
               /\ last_outcome' = "skipped"
    /\ attempts' = attempts + 1
    /\ UNCHANGED <<users, notify_queue, ingest_vars, job, subscribers, idx, sent_count,
                   now, rl, calc>>

\* WorkerSendDone without the two except clauses inside the for loop: a failed or
\* timed-out send reaches the outer except and the job is over
WorkerSendDone_aborts(outcome) ==
    /\ worker_pc = "inflight"
    /\ outcome \in {"sent", "failed", "timeout"}
    /\ IF outcome = "sent"
       THEN /\ users' = update_last_sent_at(users, subscribers[idx].tg_user_id, now)
            /\ sent_count' = sent_count + 1
            /\ last_outcome' = outcome
            /\ worker_pc' = "pause"
            /\ UNCHANGED <<job, subscribers, idx, attempts>>
       ELSE /\ worker_pc' = "get"
            /\ job' = NoJob
            /\ subscribers' = <<>>
            /\ idx' = 0
            /\ sent_count' = 0
            /\ attempts' = 0
            /\ last_outcome' = "none"
            /\ UNCHANGED users
    /\ UNCHANGED <<notify_queue, ingest_vars, now, rl, calc>>

\* WorkerSendDone without any except clause: a failed or timed-out send ends the
\* worker task
WorkerSendDone_dies(outcome) ==
    /\ worker_pc = "inflight"
    /\ outcome \in {"sent", "failed", "timeout"}
    /\ IF outcome = "sent"
       THEN /\ users' = update_last_sent_at(users, subscribers[idx].tg_user_id, now)
            /\ sent_count' = sent_count + 1
            /\ worker_pc' = "pause"
       ELSE /\ worker_pc' = "dead"
            /\ UNCHANGED <<users, sent_count>>
    /\ last_outcome' = outcome
    /\ UNCHANGED <<notify_queue, ingest_vars, job, subscribers, idx, attempts, now, rl, calc>>

\* WorkerSendDone with update_last_sent_at in a finally clause: last_sent_at is
\* touched however the send ended
WorkerSendDone_always_touches(outcome) ==
    /\ worker_pc = "inflight"
    /\ outcome \in {"sent", "failed", "timeout"}
    /\ users' = update_last_sent_at(users, subscribers[idx].tg_user_id, now)
    /\ IF outcome = "sent"
       THEN sent_count' = sent_count + 1
       ELSE UNCHANGED sent_count
    /\ last_outcome' = outcome
    /\ worker_pc' = "pause"
    /\ UNCHANGED <<notify_queue, ingest_vars, job, subscribers, idx, attempts, now, rl, calc>>

\* main.py 126-134 and bot.send_notification 394-405: the send in flight ends:
\* delivered (last_sent_at is touched), failed, or cut by wait_for's timeout
WorkerSendDone(outcome) ==
    /\ worker_pc = "inflight"
    /\ outcome \in {"sent", "failed", "timeout"}
    /\ IF outcome = "sent"
       THEN /\ users' = update_last_sent_at(users, subscribers[idx].tg_user_id, now)
            /\ sent_count' = sent_count + 1
       ELSE UNCHANGED <<users, sent_count>>
    /\ last_outcome' = outcome
    /\ worker_pc' = "pause"
    /\ UNCHANGED <<notify_queue, ingest_vars, job, subscribers, idx, attempts, now, rl, calc>>

\* WorkerPauseDone with a retry: after a timeout the same subscriber is tried again
WorkerPauseDone_retries ==
    /\ worker_pc = "pause"
    /\ IF last_outcome = "timeout"
       THEN /\ worker_pc' = "send"
            /\ UNCHANGED <<job, subscribers, idx, sent_count, attempts, last_outcome>>
       ELSE IF idx < Len(subscribers)
       THEN /\ idx' = idx + 1
            /\ worker_pc' = "send"
            /\ UNCHANGED <<job, subscribers, sent_count, attempts, last_outcome>>
       ELSE /\ worker_pc' = "get"
            /\ job' = NoJob
            /\ subscribers' = <<>>
            /\ idx' = 0
            /\ sent_count' = 0
            /\ attempts' = 0
            /\ last_outcome' = "none"
    /\ UNCHANGED <<users, notify_queue, ingest_vars, now, rl, calc>>

\* main.py 137-143: asyncio.sleep(0.1) is over; next subscriber, or the job is done
WorkerPauseDone ==
    /\ worker_pc = "pause"
    /\ IF idx < Len(subscribers)
       THEN /\ idx' = idx + 1
            /\ worker_pc' = "send"
            /\ UNCHANGED <<job, subscribers, sent_count, attempts, last_outcome>>
       ELSE /\ worker_pc' = "get"
            /\ job' = NoJob
            /\ subscribers' = <<>>
            /\ idx' = 0
            /\ sent_count' = 0
            /\ attempts' = 0
            /\ last_outcome' = "none"
    /\ UNCHANGED <<users, notify_queue, ingest_vars, now, rl, calc>>

WorkerStep ==
    \/ WorkerGet
    \/ WorkerResolveFails
    \/ WorkerStartSend
    \/ \E outcome \in {"sent", "failed", "timeout"} : WorkerSendDone(outcome)
    \/ WorkerPauseDone

(***************************************************************************)
(* bot.py: the handlers that write the users table (the writes happen      *)
(* before the handler's first await)                                       *)
(***************************************************************************)

\* a private chat's id is the user's id
private_chat(tg_user_id) == tg_user_id

\* bot.cmd_start 148-152
cmd_start(u) ==
    /\ users' = create_or_update_user(users, u, private_chat(u), NULL)
    /\ UNCHANGED <<notify_queue, ingest_vars, worker_vars, now, rl, calc>>

\* bot.process_group_selection 293-304 (and its two siblings 327-337, 357-371)
process_group_selection(u, group_code) ==
    /\ group_code \in Groups
    /\ users' = set_subscription(
                    create_or_update_user(users, u, private_chat(u), group_code), u, TRUE)
    /\ UNCHANGED <<notify_queue, ingest_vars, worker_vars, now, rl, calc>>

\* bot.cmd_unsubscribe 265-266
cmd_unsubscribe(u) ==
    /\ users' = set_subscription(users, u, FALSE)
    /\ UNCHANGED <<notify_queue, ingest_vars, worker_vars, now, rl, calc>>

\* the wall clock advances to a later instant
Tick(t) ==
    /\ t > now
    /\ now' = t
    /\ UNCHANGED <<users, notify_queue, ingest_vars, worker_vars, rl, calc>>

(***************************************************************************)
(* Specifications                                                          *)
(***************************************************************************)

\* the ingestion side: every shape of snapshot, storage faults, the worker draining
IngestSnapshots == parse_schedule_text({1}, {2}, GroupOrders, SectionTables)

NextIngest ==
    \/ ScrapeNoSnapshot
    \/ \E snap \in IngestSnapshots : \E fault \in Faults(snap) : ScrapeIteration(snap, fault)
    \/ ScrapeWake
    \/ WorkerGet
    \/ WorkerResolveFails

SpecIngest == Init /\ [][NextIngest]_vars

\* the dispatch side: one table per section (each row changes once, so every job
\* is put on the queue at most once), no storage fault, the users' commands, and a
\* clock that can pass the anti-spam interval once. User 1 only ever picks a
\* group; user 2 issues every command.
DispatchTables ==
    {[g \in Groups |-> group_entry(IF g = "1.1" THEN << <<600, 720>> >> ELSE SteadyOffList)]}

DispatchSnapshots == parse_schedule_text({1}, {2}, GroupOrders, DispatchTables)

DispatchChoices == {"1.1"}

DispatchCommanders == {2}

DispatchInstants == {0, 60}

NextDispatch ==
    \/ \E snap \in DispatchSnapshots : ScrapeIteration(snap, NoFault)
    \/ ScrapeWake
    \/ WorkerStep
    \/ \E u \in DispatchCommanders : cmd_start(u)
    \/ \E u \in Users : \E g \in DispatchChoices : process_group_selection(u, g)
    \/ \E u \in DispatchCommanders : cmd_unsubscribe(u)
    \/ \E t \in DispatchInstants : Tick(t)

SpecDispatch == Init /\ [][NextDispatch]_vars

\* the dispatcher is an asyncio task of a running event loop: a step of it that is
\* ready is eventually taken (a send in flight ends by wait_for's timeout at the latest)
FairSpecDispatch == SpecDispatch /\ WF_vars(WorkerStep)

(***************************************************************************)
(* The anti-spam limiter by itself: bot.send_notification for user 1, on   *)
(* a clock fine enough to reach both sides of every threshold              *)
(***************************************************************************)

\* the user with the lowest id
RateUser == CHOOSE u \in Users : \A v \in Users : u <= v

RateLimits == {0, 1, 2, 3}

RateInstants == {0, 1, 20, 30, 59, 60, 61, 120}

\* what the users table may hold for the user before the first call: no row, NULL,
\* an empty text, a text that is no timestamp
RateRows ==
    {Absent}
    \cup {[present |-> TRUE, tg_chat_id |-> private_chat(RateUser), group_code |-> "1.1",
           is_subscribed |-> TRUE, last_sent_at |-> [kind |-> k]] :
             k \in {"null", "empty", "bad"}}

InitRate ==
    /\ users \in {[u \in Users |-> IF u = RateUser THEN row ELSE Absent] : row \in RateRows}
    /\ group_state = [g \in Groups |-> Absent]
    /\ group_state_tomorrow = [g \in Groups |-> Absent]
    /\ notify_queue = <<>>
    /\ scrape_pc = "fetch"
    /\ snapshot = Absent
    /\ storage_fault = NoFault
    /\ dropped = {}
    /\ repeated = FALSE
    /\ worker_pc = "get"
    /\ job = NoJob
    /\ subscribers = <<>>
    /\ idx = 0
    /\ sent_count = 0
    /\ attempts = 0
    /\ last_outcome = "none"
    /\ now = 0
    /\ rl = RlIdle
    /\ calc = NoCall

\* bot.send_notification 390-392: the anti-spam check; False returns at once
SendNotificationCheck(max_per_minute) ==
    /\ rl.phase # "sending"
    /\ LET ok == can_send_message(users, RateUser, max_per_minute, now)
       IN rl' = [phase |-> IF ok THEN "sending" ELSE "denied",
                 result |-> ok,
                 max_per_minute |-> max_per_minute,
                 allowed_at |-> IF ok THEN now ELSE rl.allowed_at,
                 allowed_limit |-> IF ok THEN max_per_minute ELSE rl.allowed_limit,
                 recorded |-> IF ok THEN FALSE ELSE rl.recorded]
    /\ UNCHANGED <<users, notify_queue, ingest_vars, worker_vars, now, calc>>

\* bot.send_notification 395-402: the message went out; last_sent_at is touched
\* (the UPDATE records nothing for a user without a row). The caller's wait_for
\* cancels a send that is still in flight after NOTIFY_SEND_TIMEOUT_SECONDS
SendNotificationSent ==
    /\ rl.phase = "sending"
    /\ now - rl.allowed_at <= NOTIFY_SEND_TIMEOUT_SECONDS
    /\ users' = update_last_sent_at(users, RateUser, now)
    /\ rl' = [rl EXCEPT !.phase = "recorded", !.recorded = users[RateUser].present]
    /\ UNCHANGED <<notify_queue, ingest_vars, worker_vars, now, calc>>

\* bot.send_notification 403-405: the send raised; nothing is recorded
SendNotificationFailed ==
    /\ rl.phase = "sending"
    /\ rl' = [rl EXCEPT !.phase = "failed"]
    /\ UNCHANGED <<users, notify_queue, ingest_vars, worker_vars, now, calc>>

NextRate ==
    \/ \E m \in RateLimits : SendNotificationCheck(m)
    \/ SendNotificationSent
    \/ SendNotificationFailed
    \/ \E t \in RateInstants : Tick(t)

SpecRate == InitRate /\ [][NextRate]_vars

(***************************************************************************)
(* The interval algebra by itself: merge_intervals and invert_intervals    *)
(* called on every list of valid intervals of the bounded universe         *)
(***************************************************************************)

\* the longest list of intervals handed to a function
MaxIntervals == 3

\* minutes that interval boundaries are taken from: the ends of the day, two
\* boundaries inside it, and one a minute after
GridMinutes == {0, 600, 720, 721, DAY_MINUTES}

\* 0 <= start < end <= 1440
ValidIntervals == {<<a, b>> : a, b \in GridMinutes} \ {<<a, b>> \in GridMinutes \X GridMinutes : a >= b}

IntervalLists == UNION {[1..n -> ValidIntervals] : n \in 0..MaxIntervals}

program_vars == <<users, notify_queue, ingest_vars, worker_vars, now, rl>>

\* the program before anything has run
ProgramAtRest ==
    /\ users = [u \in Users |-> Absent]
    /\ group_state = [g \in Groups |-> Absent]
    /\ group_state_tomorrow = [g \in Groups |-> Absent]
    /\ notify_queue = <<>>
    /\ scrape_pc = "fetch"
    /\ snapshot = Absent
    /\ storage_fault = NoFault
    /\ dropped = {}
    /\ repeated = FALSE
    /\ worker_pc = "get"
    /\ job = NoJob
    /\ subscribers = <<>>
    /\ idx = 0
    /\ sent_count = 0
    /\ attempts = 0
    /\ last_outcome = "none"
    /\ now = 0
    /\ rl = RlIdle

InitAlgebra ==
    /\ ProgramAtRest
    /\ calc \in {[op |-> "args", intervals |-> x] : x \in IntervalLists}

\* merged = merge_intervals(intervals)
CallMerge ==
    /\ calc.op = "args"
    /\ calc' = [op |-> "merge", intervals |-> calc.intervals,
                result |-> merge_intervals(calc.intervals)]
    /\ UNCHANGED program_vars

\* on_intervals = invert_intervals(off_intervals)
CallInvert ==
    /\ calc.op = "args"
    /\ calc' = [op |-> "invert", intervals |-> calc.intervals,
                result |-> invert_intervals(calc.intervals)]
    /\ UNCHANGED program_vars

\* invert_intervals called on its own result
CallInvertTwice ==
    /\ calc.op = "args"
    /\ calc' = [op |-> "invert_twice", intervals |-> calc.intervals,
                result |-> invert_intervals(invert_intervals(calc.intervals))]
    /\ UNCHANGED program_vars

NextAlgebra ==
    \/ CallMerge
    \/ CallInvert
    \/ CallInvertTwice

SpecAlgebra == InitAlgebra /\ [][NextAlgebra]_vars

(***************************************************************************)
(* compute_group_hash by itself: the hash of a source list and the hash of *)
(* the same list written differently, or with one boundary a minute off    *)
(***************************************************************************)

\* the longest source list handed to compute_group_hash
MaxEntries == 2

\* boundaries of the source intervals: two that touch or overlap, two a minute
\* apart, and the end of the day
HashMinutes == {600, 720, 721, DAY_MINUTES}

HashIntervals == {iv \in HashMinutes \X HashMinutes : iv[1] < iv[2]}

SourceLists == UNION {[1..n -> HashIntervals] : n \in 0..MaxEntries}

Separators == {"en", "hy"}

\* the source strings "HH:MM<sep>HH:MM" of a list of minute intervals
source_strings(intervals, seps) ==
    [i \in 1..Len(intervals) |->
        [a |-> minutes_to_time(intervals[i][1]),
         b |-> minutes_to_time(intervals[i][2]),
         sep |-> seps[i]]]

EnDashes(n) == [i \in 1..n |-> "en"]

Orderings(n) == {p \in [1..n -> 1..n] : \A i, j \in 1..n : p[i] = p[j] => i = j}

\* the same entries in any order, each written with either separator
Rewrites(x) ==
    {source_strings([i \in 1..Len(x) |-> x[p[i]]], seps) :
        p \in Orderings(Len(x)), seps \in [1..Len(x) -> Separators]}

\* the same list with one boundary of one entry a minute earlier or later, still
\* a time of the day
OneMinuteOff(x) ==
    LET moved == {[x EXCEPT ![i][k] = @ + d] :
                     i \in 1..Len(x), k \in {1, 2}, d \in {-1, 1}}
        in_day == {y \in moved : \A i \in 1..Len(y) : 0 <= y[i][1] /\ y[i][2] <= DAY_MINUTES}
    IN {source_strings(y, EnDashes(Len(y))) : y \in in_day}

\* which of the three lists of a group is varied ("all": the three together)
HashFields == {"off", "on", "maybe", "all"}

\* the list the fields that are not varied hold
OtherList == source_strings(<< <<0, 600>> >>, EnDashes(1))

\* the schedule dates hashed
HashDates == {1}

\* a call to make: the list as the page would give it, and its variant
hash_call(schedule_date, field, change, x, variant) ==
    [op |-> "hash_args", schedule_date |-> schedule_date, field |-> field,
     change |-> change, base |-> source_strings(x, EnDashes(Len(x))), variant |-> variant]

InitHash ==
    /\ ProgramAtRest
    /\ \E x \in SourceLists, d \in HashDates, f \in HashFields :
          \/ \E y \in Rewrites(x) : calc = hash_call(d, f, "rewrite", x, y)
          \/ \E y \in OneMinuteOff(x) : calc = hash_call(d, f, "minute", x, y)

\* compute_group_hash(date, off, on, maybe) with the list put in the chosen field
hash_of(schedule_date, field, intervals) ==
    compute_group_hash(schedule_date,
        IF field \in {"off", "all"} THEN intervals ELSE OtherList,
        IF field \in {"on", "all"} THEN intervals ELSE OtherList,
        IF field \in {"maybe", "all"} THEN intervals ELSE OtherList)

\* new_hash = compute_group_hash(...) for the list and for its variant
CallHash ==
    /\ calc.op = "hash_args"
    /\ calc' = [calc EXCEPT !.op = "hash"] @@
               [hash_base |-> hash_of(calc.schedule_date, calc.field, calc.base),
                hash_variant |-> hash_of(calc.schedule_date, calc.field, calc.variant)]
    /\ UNCHANGED program_vars

\* the detector's comparison "old_state['hash'] != new_hash"
CallCompare ==
    /\ calc.op = "hash"
    /\ calc' = [calc EXCEPT !.op = "compared"] @@
               [changed |-> (calc.hash_base # calc.hash_variant)]
    /\ UNCHANGED program_vars

NextHash ==
    \/ CallHash
    \/ CallCompare

SpecHash == InitHash /\ [][NextHash]_vars

(***************************************************************************)
(* From the page to the stored row: the off intervals of a group line as   *)
(* the page words them (split, out of order, overlapping, or merged), the  *)
(* scraper's snapshot of them, and what detection stores                   *)
(***************************************************************************)

\* the off intervals of the line of group 1.1: one interval; 10:00-14:00 in two
\* touching pieces, in either order; in one piece
CanonOffLists ==
    { << <<600, 720>> >>,
      << <<600, 720>>, <<720, 840>> >>,
      << <<720, 840>>, <<600, 720>> >>,
      << <<600, 840>> >> }

\* the schedule date the page shows for a slot
CanonDates == [today |-> 1, tomorrow |-> 2]

\* the off intervals of the line of group g when the line of 1.1 reads x
page_off(x, g) == IF g = "1.1" THEN x ELSE SteadyOffList

\* scraper.parse_schedule_text for a page with the one section of slot
page_snapshot(slot, order, x) ==
    LET section == slot_snapshot(CanonDates[slot], order,
                                 [g \in Groups |-> group_entry(page_off(x, g))])
    IN [present |-> TRUE,
        today |-> IF slot = "today" THEN section ELSE Absent,
        tomorrow |-> IF slot = "tomorrow" THEN section ELSE Absent]

\* the (slot, group) keys of the changes a pass persisted
changed_keys(r) ==
    {[kind |-> "today", group_code |-> r.changed_today[i].group_code] :
        i \in 1..Len(r.changed_today)}
    \cup {[kind |-> "tomorrow", group_code |-> r.changed_tomorrow[i].group_code] :
        i \in 1..Len(r.changed_tomorrow)}

\* main.py 175-289 with the page behind the snapshot on record: the page shows
\* the section of slot with the line of 1.1 reading x, the scraper parses it and
\* the pass runs to the poll sleep. calc keeps the page, the page before it and
\* what the pass persisted
PageIteration(slot, x) ==
    /\ scrape_pc = "fetch"
    /\ \E order \in GroupOrders :
       \E r \in {run_iteration(page_snapshot(slot, order, x), NoFault, group_state,
                               group_state_tomorrow, notify_queue)} :
          /\ group_state' = r.group_state
          /\ group_state_tomorrow' = r.group_state_tomorrow
          /\ notify_queue' = r.notify_queue
          /\ dropped' = r.dropped
          /\ snapshot' = page_snapshot(slot, order, x)
          /\ repeated' = (snapshot = page_snapshot(slot, order, x))
          /\ calc' = [op |-> "page", slot |-> slot, off |-> x,
                      before |-> IF calc.op = "page" /\ calc.slot = slot
                                 THEN calc.off ELSE <<>>,
                      changed |-> changed_keys(r)]
    /\ storage_fault' = NoFault
    /\ scrape_pc' = "sleep"
    /\ UNCHANGED <<users, worker_vars, now, rl>>

NextCanon ==
    \/ \E slot \in Slots : \E x \in CanonOffLists : PageIteration(slot, x)
    \/ ScrapeWake
    \/ WorkerGet

SpecCanon == Init /\ [][NextCanon]_vars

(***************************************************************************)
(* The tomorrow section over two days: the page shows the schedule of one  *)
(* date, changes its intervals, and moves on to the next date              *)
(***************************************************************************)

\* the dates the tomorrow section shows, one after the other or back again
TomorrowDates == {2, 3}

TomorrowSnapshots == parse_schedule_text({}, TomorrowDates, GroupOrders, SectionTables)

NextTomorrow ==
    \/ \E snap \in TomorrowSnapshots : ScrapeIteration(snap, NoFault)
    \/ ScrapeWake
    \/ WorkerGet

SpecTomorrow == Init /\ [][NextTomorrow]_vars

(***************************************************************************)
(* From the lines of the page to the snapshot: sections that miss a group  *)
(***************************************************************************)

\* scraper.parse_groups_from_section_lines without "if len(groups_data.keys())
\* != 12: return None": the groups found are returned, however few
parse_groups_from_section_lines_partial(section_lines) ==
    LET has_data(l) == l.group_code \in Groups /\ l.off # <<>>
        found == SelectSeq(section_lines, has_data)
    IN IF found = <<>> THEN Absent
       ELSE [present |-> TRUE,
             groups |-> [i \in 1..Len(found) |->
                            [group_code |-> found[i].group_code,
                             intervals |-> group_entry(found[i].off)]]]

\* scraper.parse_groups_from_section_lines: the group lines of a section, each
\* with the off intervals extract_group_off_intervals found in it. A line without
\* intervals is skipped; unless every valid group has data the result is None.
\* (Every group has at most one line in the sections drawn here.)
parse_groups_from_section_lines(section_lines) ==
    LET has_data(l) == l.group_code \in Groups /\ l.off # <<>>
        found == SelectSeq(section_lines, has_data)
    IN IF Cardinality({found[i].group_code : i \in 1..Len(found)}) # Cardinality(Groups)
       THEN Absent
       ELSE [present |-> TRUE,
             groups |-> [i \in 1..Len(found) |->
                            [group_code |-> found[i].group_code,
                             intervals |-> group_entry(found[i].off)]]]

\* {"schedule_date": ..., "groups": ...} or None
section_snapshot(schedule_date, parsed) ==
    IF parsed.present
    THEN [present |-> TRUE, schedule_date |-> schedule_date, groups |-> parsed.groups]
    ELSE Absent

\* scraper.parse_schedule_text 317-397 for a page with one or two dated sections;
\* page: date -> section, today_str: today's date on the clock
parse_page(page, today_str) ==
    LET dates == {d \in DOMAIN page : page[d].present}
        tomorrow_str == today_str + 1
        lowest == CHOOSE d \in dates : \A e \in dates : d <= e
        highest == CHOOSE d \in dates : \A e \in dates : e <= d
    IN IF Cardinality(dates) = 1
       THEN LET only_groups == parse_groups_from_section_lines(page[lowest].lines)
                only == section_snapshot(lowest, only_groups)
            IN IF ~only_groups.present THEN Absent
               ELSE [present |-> TRUE,
                     today |-> IF lowest # tomorrow_str THEN only ELSE Absent,
                     tomorrow |-> IF lowest = tomorrow_str THEN only ELSE Absent]
       ELSE LET today_key == IF today_str \in dates THEN today_str ELSE lowest
                tomorrow_key == IF tomorrow_str \in dates THEN tomorrow_str ELSE highest
                today_groups == parse_groups_from_section_lines(page[today_key].lines)
            IN IF ~today_groups.present THEN Absent
               ELSE [present |-> TRUE,
                     today |-> section_snapshot(today_key, today_groups),
                     tomorrow |->
                        IF tomorrow_key # today_key
                        THEN section_snapshot(tomorrow_key,
                                parse_groups_from_section_lines(page[tomorrow_key].lines))
                        ELSE Absent]

\* the dates of the sections a page can show, and today's date on the clock
PageDates == {1, 2}

ClockDays == {1}

\* the group lines of a section: complete, the line of 1.2 missing, the line of
\* 1.1 without an interval
SectionLines ==
    { <<[group_code |-> "1.1", off |-> << <<600, 720>> >>],
        [group_code |-> "1.2", off |-> SteadyOffList]>>,
      <<[group_code |-> "1.1", off |-> << <<600, 720>> >>]>>,
      <<[group_code |-> "1.1", off |-> <<>>],
        [group_code |-> "1.2", off |-> SteadyOffList]>> }

Sections == {Absent} \cup {[present |-> TRUE, lines |-> l] : l \in SectionLines}

\* a page shows at least one section
Pages == {page \in [PageDates -> Sections] : \E d \in PageDates : page[d].present}

\* main.py 175-295 with the page on record: the browser returns the page, the
\* scraper parses it, and the iteration runs to the poll sleep, skipped when the
\* parse gave no snapshot
PageFetch(page, today_str) ==
    /\ scrape_pc = "fetch"
    /\ LET snap == parse_page(page, today_str)
       IN IF snap.present
          THEN \E r \in {run_iteration(snap, NoFault, group_state, group_state_tomorrow,
                                       notify_queue)} :
                  /\ group_state' = r.group_state
                  /\ group_state_tomorrow' = r.group_state_tomorrow
                  /\ notify_queue' = r.notify_queue
                  /\ dropped' = r.dropped
                  /\ snapshot' = snap
                  /\ repeated' = (snapshot = snap)
          ELSE /\ snapshot' = Absent
               /\ dropped' = {}
               /\ repeated' = FALSE
               /\ UNCHANGED <<group_state, group_state_tomorrow, notify_queue>>
    /\ calc' = [op |-> "fetched", page |-> page, today_str |-> today_str]
    /\ storage_fault' = NoFault
    /\ scrape_pc' = "sleep"
    /\ UNCHANGED <<users, worker_vars, now, rl>>

NextParse ==
    \/ \E page \in Pages : \E today_str \in ClockDays : PageFetch(page, today_str)
    \/ ScrapeWake
    \/ WorkerGet

SpecParse == Init /\ [][NextParse]_vars

(***************************************************************************)
(* The enqueue loop by itself: a batch of changed groups of one slot put   *)
(* on a queue that the dispatcher drains between the loops                 *)
(***************************************************************************)

\* the jobs detection builds for a slot of a snapshot when no row is stored
slot_jobs(snap, slot) ==
    LET start == [table |-> [g \in Groups |-> Absent], changed |-> <<>>, raised |-> FALSE]
    IN IF slot = "today"
       THEN detect_today(start, snap.today.schedule_date, snap.today.groups, 1, 0).changed
       ELSE detect_tomorrow(start, snap.tomorrow.schedule_date, snap.tomorrow.groups,
                            1, 0).changed

\* changed_today / changed_tomorrow: the jobs of some of the groups of the slot,
\* in page order
Batches ==
    UNION {{SubSeq(slot_jobs(snap, slot), a, b) :
                a \in 1..Len(slot_jobs(snap, slot)), b \in 1..Len(slot_jobs(snap, slot))}
           : snap \in {sn \in DispatchSnapshots : sn.today.present /\ sn.tomorrow.present},
             slot \in Slots}
    \ {<<>>}

\* main.py 219-233 / 269-284: the enqueue loop over a batch, no await inside
EnqueueBatch(batch) ==
    /\ scrape_pc = "fetch"
    /\ notify_queue' = enqueue_changed(notify_queue, batch)
    /\ dropped' = dropped_of(notify_queue, batch)
    /\ calc' = [op |-> "enqueued", batch |-> batch]
    /\ scrape_pc' = "sleep"
    /\ UNCHANGED <<users, group_state, group_state_tomorrow, snapshot, storage_fault,
                   repeated, worker_vars, now, rl>>

NextQueue ==
    \/ \E batch \in Batches : EnqueueBatch(batch)
    \/ ScrapeWake
    \/ WorkerGet

SpecQueue == Init /\ [][NextQueue]_vars

(***************************************************************************)
(* Properties of the ingestion side (SpecIngest)                           *)
(***************************************************************************)

\* a step of scrape_loop_task that processed a snapshot
IterationStep == scrape_pc = "fetch" /\ scrape_pc' = "sleep" /\ snapshot'.present

\* the jobs a step appended to the queue
NewJobs == SubSeq(notify_queue', Len(notify_queue) + 1, Len(notify_queue'))

JobKey(j) == [kind |-> j.kind, group_code |-> j.group_code]

\* the entry of group g in a slot of a snapshot
EntryOf(snap, slot, g) ==
    LET groups == snap[slot].groups
    IN groups[CHOOSE i \in 1..Len(groups) : groups[i].group_code = g]

PositionOf(snap, slot, g) ==
    LET groups == snap[slot].groups
    IN CHOOSE i \in 1..Len(groups) : groups[i].group_code = g

\* the pass over snap that fault hit compared (and, on a difference, saved) the
\* row of g in slot: the slot is on the page and no storage error came first
RowSeen(snap, fault, slot, g) ==
    /\ snap.present
    /\ snap[slot].present
    /\ IF slot = "today"
       THEN fault.slot # "today" \/ PositionOf(snap, slot, g) < fault.at
       ELSE fault.slot = "none"
            \/ (fault.slot = "tomorrow" /\ PositionOf(snap, slot, g) < fault.at)

\* C1: idempotence of detection. For every (group, slot): when a pass has
\* processed the row and the next pass processes it again from a snapshot with the
\* same date and the same intervals for it, the second pass leaves the stored row
\* as it is and produces no job for it (none enqueued, none dropped).
C1_IdempotentDetection ==
    [][IterationStep =>
        \A slot \in Slots : \A g \in Groups :
            ( /\ RowSeen(snapshot, storage_fault, slot, g)
              /\ RowSeen(snapshot', storage_fault', slot, g)
              /\ snapshot'[slot].schedule_date = snapshot[slot].schedule_date
              /\ EntryOf(snapshot', slot, g) = EntryOf(snapshot, slot, g) )
            => /\ \A k \in 1..Len(NewJobs) : JobKey(NewJobs[k]) # [kind |-> slot, group_code |-> g]
               /\ [kind |-> slot, group_code |-> g] \notin dropped'
               /\ IF slot = "today" THEN group_state'[g] = group_state[g]
                  ELSE group_state_tomorrow'[g] = group_state_tomorrow[g]
      ]_vars

\* C1 witness: the same two-slot snapshot has been processed twice in a row and
\* the rows it wrote are stored
C1_Witness ==
    /\ repeated
    /\ scrape_pc = "sleep"
    /\ snapshot.today.present /\ snapshot.tomorrow.present
    /\ \A g \in Groups : group_state[g].present /\ group_state_tomorrow[g].present
    /\ group_state["1.1"].hash =
         compute_group_hash(snapshot.today.schedule_date,
                            EntryOf(snapshot, "today", "1.1").intervals.off,
                            EntryOf(snapshot, "today", "1.1").intervals.on,
                            EntryOf(snapshot, "today", "1.1").intervals.maybe)

\* C2: backpressure. The queue never holds more than NOTIFICATION_QUEUE_MAXSIZE
\* jobs; a pass of the ingestion loop only appends to the queue, and when the
\* queue is full it leaves it exactly as it is (same jobs, same order): the
\* incoming jobs are the ones discarded, and the pass still reaches its sleep.
C2_Backpressure ==
    /\ [](Len(notify_queue) <= NOTIFICATION_QUEUE_MAXSIZE)
    /\ [][IterationStep =>
            /\ Len(notify_queue') >= Len(notify_queue)
            /\ SubSeq(notify_queue', 1, Len(notify_queue)) = notify_queue
            /\ (Len(notify_queue) = NOTIFICATION_QUEUE_MAXSIZE => notify_queue' = notify_queue)
            /\ (dropped' # {} => Len(notify_queue') = NOTIFICATION_QUEUE_MAXSIZE)
            /\ \A k \in 1..Len(NewJobs) : JobKey(NewJobs[k]) \notin dropped'
       ]_vars

\* C2 witness: a pass found the queue full and dropped a job
C2_Witness ==
    /\ scrape_pc = "sleep"
    /\ Len(notify_queue) = NOTIFICATION_QUEUE_MAXSIZE
    /\ dropped # {}

\* C3: self-correction after a queue-full drop. When a pass dropped the job of a
\* (group, slot) on a full queue and the next pass reads the same snapshot (the
\* schedule is still the one nobody was told about), the next pass produces a job
\* for that (group, slot) again: it is put on the queue, or dropped once more if
\* the queue is still full.
C3_DropSelfCorrects ==
    [][(IterationStep /\ repeated') =>
        \A d \in dropped :
            \/ \E k \in 1..Len(NewJobs) : JobKey(NewJobs[k]) = d
            \/ d \in dropped'
      ]_vars

(***************************************************************************)
(* Properties of the dispatch side (SpecDispatch)                          *)
(***************************************************************************)

\* the step in which the send to subscribers[idx] goes out
SendStarts == worker_pc = "send" /\ worker_pc' = "inflight"

\* C4: a user who at that moment has is_subscribed = false or group_code = null
\* is never a delivery target: whenever the dispatcher starts a send, the user it
\* goes to has a row that is subscribed and has a group, also when /unsubscribe,
\* /start or a group change arrived while the job was being dispatched.
C4_NeverTargetsUnsubscribed ==
    [][SendStarts =>
        LET u == users[subscribers[idx].tg_user_id]
        IN u.present /\ u.is_subscribed /\ u.group_code # NULL
      ]_vars

\* the step in which the worker takes a job off the queue
Dequeues == worker_pc = "get" /\ notify_queue # <<>> /\ notify_queue' = Tail(notify_queue)

\* the users a job for group g is meant for
SubscribedTo(g) ==
    {u \in Users : users[u].present /\ users[u].is_subscribed /\ users[u].group_code = g}

\* C5: the subscriber list resolved for a job holds exactly the users whose
\* group_code is the job's group and whose is_subscribed is true at that time,
\* each once and with their chat id; the query answers exactly that set for every
\* group in every reachable users table.
C5_ResolvedExactly ==
    /\ [](\A g \in Groups :
            LET rows == get_subscribed_users_for_group(users, g)
            IN /\ {rows[k].tg_user_id : k \in 1..Len(rows)} = SubscribedTo(g)
               /\ Len(rows) = Cardinality(SubscribedTo(g)))
    /\ [][Dequeues =>
            IF worker_pc' = "send"
            THEN /\ {subscribers'[k].tg_user_id : k \in 1..Len(subscribers')}
                      = SubscribedTo(Head(notify_queue).group_code)
                 /\ Len(subscribers') = Cardinality(SubscribedTo(Head(notify_queue).group_code))
                 /\ \A k \in 1..Len(subscribers') :
                       subscribers'[k].tg_chat_id = users[subscribers'[k].tg_user_id].tg_chat_id
                 /\ job'.group_code = Head(notify_queue).group_code
            ELSE subscribers' = <<>> /\ worker_pc' = "get"
       ]_vars

\* C5 witness: a job for 1.1 has just been resolved to user 1 alone while user 2,
\* also of group 1.1, is unsubscribed
C5_Witness ==
    /\ worker_pc = "send" /\ idx = 1 /\ attempts = 0
    /\ job.group_code = "1.1"
    /\ subscribers = <<[tg_user_id |-> 1, tg_chat_id |-> private_chat(1)]>>
    /\ users[2].present /\ users[2].group_code = "1.1" /\ ~users[2].is_subscribed

(***************************************************************************)
(* Properties of the anti-spam limiter (SpecRate)                          *)
(***************************************************************************)

\* a step that is a call of can_send_message with max_per_minute = m
CheckStep(m) ==
    /\ rl.phase # "sending"
    /\ rl'.phase \in {"sending", "denied"}
    /\ rl'.max_per_minute = m
    /\ now' = now

\* C6 as the specification words it: with max_per_minute = 1, two checks spaced
\* 60 seconds or more apart are both allowed. After a check that was allowed and
\* whose send was recorded, a check made 60 seconds or more after that check is
\* allowed.
C6_SpacedChecksAllowed ==
    [][(CheckStep(1) /\ rl.recorded /\ rl.allowed_limit = 1 /\ now - rl.allowed_at >= 60)
         => rl'.result
      ]_vars

\* C6, amended: with max_per_minute = 1, after an allowed check whose send was
\* recorded, a check less than 60 seconds after that check is denied, and a check
\* 60 seconds or more after the recorded last_sent_at is allowed; for every
\* max_per_minute >= 1 and a recorded timestamp, the check is allowed iff
\* now - last_sent_at >= 60 / max_per_minute.
C6_RateLimit ==
    [][\A m \in RateLimits \ {0} :
         CheckStep(m) =>
           LET row == users[RateUser]
           IN /\ (m = 1 /\ rl.recorded /\ rl.allowed_limit = 1 /\ now - rl.allowed_at < 60)
                    => ~rl'.result
              /\ (row.present /\ row.last_sent_at.kind = "iso")
                    => /\ (m = 1 /\ now - row.last_sent_at.t >= 60) => rl'.result
                       /\ rl'.result <=> (now - row.last_sent_at.t >= 60 \div m)
      ]_vars

\* C6 witness: exactly 60 seconds after the recorded last_sent_at a check with
\* max_per_minute = 1 has just been allowed
C6_Witness ==
    /\ rl.phase = "sending" /\ rl.result /\ rl.max_per_minute = 1
    /\ users[RateUser].present /\ users[RateUser].last_sent_at.kind = "iso"
    /\ now - users[RateUser].last_sent_at.t = 60
    /\ rl.allowed_at = now

\* C7: can_send_message fails open. For a user with no row, a NULL or empty
\* last_sent_at, or a stored text that is no timestamp, the check answers True for
\* every max_per_minute, and it leaves every table as it is.
C7_FailsOpen ==
    [][\A m \in RateLimits :
         (CheckStep(m) /\ (~users[RateUser].present
                           \/ users[RateUser].last_sent_at.kind # "iso"))
           => /\ rl'.result /\ rl'.phase = "sending"
              /\ users' = users
              /\ group_state' = group_state
              /\ group_state_tomorrow' = group_state_tomorrow
      ]_vars

\* C7 witness: the check has just allowed a user whose stored last_sent_at is no
\* timestamp, with max_per_minute = 0
C7_Witness ==
    /\ rl.phase = "sending" /\ rl.result /\ rl.max_per_minute = 0
    /\ users[RateUser].present /\ users[RateUser].last_sent_at.kind = "bad"

(***************************************************************************)
(* Properties of the worker and of the two loops together (SpecDispatch)   *)
(***************************************************************************)

\* C8: failure isolation within a job. When the send to the i-th subscriber
\* fails or times out, the job, its subscriber list and the position stay as they
\* are, the pause that follows moves on to subscriber i+1, and the job ends only
\* after the last subscriber, with one package call awaited per subscriber.
C8_FailureIsolation ==
    /\ [][(worker_pc = "inflight" /\ worker_pc' # "inflight"
              /\ last_outcome' \in {"failed", "timeout"})
            => /\ worker_pc' = "pause"
               /\ job' = job /\ subscribers' = subscribers /\ idx' = idx
       ]_vars
    /\ [][(worker_pc = "pause" /\ worker_pc' # "pause" /\ idx < Len(subscribers))
            => /\ worker_pc' = "send" /\ idx' = idx + 1
               /\ job' = job /\ subscribers' = subscribers
       ]_vars
    /\ [][(job.present /\ ~job'.present)
            => idx = Len(subscribers) /\ attempts = Len(subscribers)
       ]_vars

\* C8 witness: the send to the first of two subscribers failed or timed out and
\* the send to the second one is in flight
C8_Witness ==
    /\ worker_pc = "inflight"
    /\ Len(subscribers) = 2 /\ idx = 2 /\ attempts = 2
    /\ last_outcome \in {"failed", "timeout"}
    /\ sent_count = 0

\* C9: every dequeued job reaches Done. The worker is always at one of its four
\* await points; whenever it is inside a job it eventually is back at queue.get()
\* with no job in hand, whatever the outcomes of the sends; the step that ends a
\* job leaves the queue as it is (the job is not put back), and a job in progress
\* is never swapped for another.
C9_JobAlwaysCompletes ==
    /\ [](worker_pc \in {"get", "send", "inflight", "pause"})
    /\ [](worker_pc = "get" <=> ~job.present)
    /\ [][(job.present /\ ~job'.present)
            => worker_pc' = "get" /\ notify_queue' = notify_queue]_vars
    /\ [][(job.present /\ job'.present) => job' = job]_vars
    /\ (worker_pc # "get") ~> (worker_pc = "get" /\ ~job.present)

\* C9 witness: a job has been delivered to user 1 and the worker is back at
\* queue.get() with the queue empty
C9_Witness ==
    /\ worker_pc = "get" /\ ~job.present
    /\ notify_queue = <<>>
    /\ group_state["1.1"].present
    /\ users[1].present /\ users[1].last_sent_at.kind = "iso"

\* C10: the ingestion loop is never blocked by dispatch. Whenever scrape_loop_task
\* is at its fetch, the pass over any snapshot (and the no-snapshot pass) can run
\* at once, whatever the worker is doing and however full the queue is, and when
\* it sleeps it can wake; a pass ends in the poll sleep and moves no worker
\* variable.
C10_IngestionNeverBlocked ==
    /\ [](scrape_pc = "fetch" =>
            /\ \A snap \in DispatchSnapshots :
                 \E r \in {run_iteration(snap, NoFault, group_state,
                                         group_state_tomorrow, notify_queue)} :
                    ENABLED IterationEffects(snap, NoFault, r)
            /\ ENABLED ScrapeNoSnapshot)
    /\ [](scrape_pc = "sleep" => ENABLED ScrapeWake)
    /\ [][scrape_pc = "fetch" /\ scrape_pc' # "fetch"
            => scrape_pc' = "sleep" /\ UNCHANGED worker_vars]_vars

\* C10 witness: a pass ran to its sleep, dropping a job on the full queue, while a
\* send of the worker was in flight
C10_Witness ==
    /\ scrape_pc = "sleep"
    /\ worker_pc = "inflight"
    /\ Len(notify_queue) = NOTIFICATION_QUEUE_MAXSIZE
    /\ dropped # {}

(***************************************************************************)
(* Properties of the interval algebra (SpecAlgebra)                        *)
(***************************************************************************)

\* the minutes of the day a list of intervals covers
Covered(intervals) ==
    UNION {intervals[i][1] .. (intervals[i][2] - 1) : i \in 1..Len(intervals)}

\* sorted by start, every entry non-empty, consecutive entries apart
Canonical(intervals) ==
    /\ \A i \in 1..Len(intervals) : intervals[i][1] < intervals[i][2]
    /\ \A i \in 1..(Len(intervals) - 1) : intervals[i][2] < intervals[i + 1][1]

\* C11: for every list of intervals with 0 <= start < end <= 1440, merge_intervals
\* returns a list sorted by start whose consecutive entries are disjoint and not
\* adjacent (end[i] < start[i+1]) and that covers exactly the minutes the input
\* covers; the empty list gives the empty list.
C11_MergeCanonical ==
    calc.op = "merge" =>
        /\ Canonical(calc.result)
        /\ Covered(calc.result) = Covered(calc.intervals)
        /\ (calc.intervals = <<>> => calc.result = <<>>)

\* C11 witness: two touching intervals given out of order came back as one
C11_Witness ==
    /\ calc.op = "merge"
    /\ calc.intervals = << <<720, 1440>>, <<600, 720>> >>
    /\ calc.result = << <<600, 1440>> >>

\* C12: partition law. For every list off of valid intervals the minutes covered
\* by invert_intervals(off) and those covered by merge_intervals(off) are disjoint
\* and together are all of [0, 1440); for the empty list the result is the single
\* interval [0, 1440).
C12_PartitionLaw ==
    calc.op = "invert" =>
        /\ Covered(calc.result) \cap Covered(merge_intervals(calc.intervals)) = {}
        /\ Covered(calc.result) \cup Covered(merge_intervals(calc.intervals))
              = 0 .. (DAY_MINUTES - 1)
        /\ Covered(merge_intervals(calc.intervals)) = Covered(calc.intervals)
        /\ Canonical(calc.result)
        /\ (calc.intervals = <<>> => calc.result = << <<0, DAY_MINUTES>> >>)

\* C12 witness: the complement of two overlapping intervals in the middle of the
\* day has a piece before them and a piece after them
C12_Witness ==
    /\ calc.op = "invert"
    /\ calc.intervals = << <<600, 721>>, <<600, 720>> >>
    /\ calc.result = << <<0, 600>>, <<721, 1440>> >>

\* C13: round trip. For every list x of valid intervals,
\* invert_intervals(invert_intervals(x)) = merge_intervals(x), also for the empty
\* list and for a list that covers the whole day.
C13_InvertRoundTrip ==
    calc.op = "invert_twice" => calc.result = merge_intervals(calc.intervals)

\* C13 witness: the round trip of a list that covers the whole day, in two
\* pieces given out of order, is the whole day
C13_Witness ==
    /\ calc.op = "invert_twice"
    /\ calc.intervals = << <<600, 1440>>, <<0, 600>> >>
    /\ calc.result = << <<0, DAY_MINUTES>> >>

(***************************************************************************)
(* Properties of the hash (SpecHash)                                       *)
(***************************************************************************)

\* the minute intervals a list of source strings denotes
MinutesOf(strs) ==
    [i \in 1..Len(strs) |-> <<time_to_minutes(strs[i].a), time_to_minutes(strs[i].b)>>]

\* no two entries of the list overlap or touch
Separated(strs) ==
    LET m == MinutesOf(strs)
    IN \A i, j \in 1..Len(m) : i # j => (m[i][2] < m[j][1] \/ m[j][2] < m[i][1])

\* C14: hash stability under formatting. For a fixed schedule_date,
\* compute_group_hash returns the same value for any permutation of the entries of
\* the off, on and maybe source lists and for either separator (en dash or hyphen)
\* in each entry.
C14_HashStable ==
    (calc.op = "hash" /\ calc.change = "rewrite") => calc.hash_base = calc.hash_variant

\* C14 witness: two overlapping entries swapped and written with hyphens hash as
\* the original list does
C14_Witness ==
    /\ calc.op = "hash"
    /\ calc.change = "rewrite"
    /\ calc.field = "off"
    /\ MinutesOf(calc.base) = << <<600, 721>>, <<720, DAY_MINUTES>> >>
    /\ MinutesOf(calc.variant) = << <<720, DAY_MINUTES>>, <<600, 721>> >>
    /\ \A i \in 1..Len(calc.variant) : calc.variant[i].sep = "hy"
    /\ calc.hash_base = calc.hash_variant

\* C15 as stated: hash sensitivity. If any interval boundary in the off, on or
\* maybe source strings changes by one minute, all else equal, compute_group_hash
\* returns a different value, so the detector reports a change.
C15_HashSensitive ==
    /\ (calc.op = "hash" /\ calc.change = "minute") => calc.hash_base # calc.hash_variant
    /\ (calc.op = "compared" /\ calc.change = "minute") => calc.changed

\* C15 amended: if a boundary of a source list whose entries do not overlap or touch
\* one another changes by one minute, all else equal, compute_group_hash returns a
\* different value and the detector reports a change. (A boundary that lies inside
\* or on the edge of another entry of the same list can move without the merged
\* intervals, and so the hash, changing.)
C15_HashSensitiveSeparated ==
    /\ (calc.op = "hash" /\ calc.change = "minute" /\ Separated(calc.base))
          => calc.hash_base # calc.hash_variant
    /\ (calc.op = "compared" /\ calc.change = "minute" /\ Separated(calc.base))
          => calc.changed

\* C15 witness: in a list of two entries a minute apart the end of the first moved
\* a minute later, onto the start of the second, and the detector saw a change
C15_Witness ==
    /\ calc.op = "compared"
    /\ calc.change = "minute"
    /\ MinutesOf(calc.base) = << <<600, 720>>, <<721, DAY_MINUTES>> >>
    /\ MinutesOf(calc.variant) = << <<600, 721>>, <<721, DAY_MINUTES>> >>
    /\ calc.changed

(***************************************************************************)
(* Properties of what detection stores (SpecIngest)                        *)
(***************************************************************************)

\* the hash computed from what a row of group_state / group_state_tomorrow stores
hash_of_row(row) ==
    compute_group_hash(row.schedule_date, row.data_json.off, row.data_json.on,
                       row.data_json.maybe)

\* C16: in every reachable state the hash stored in each row of group_state and of
\* group_state_tomorrow equals the hash computed from the schedule_date and the
\* off/on/maybe data stored in that same row; no sequence of iterations, those cut
\* short by a storage error included, leaves a row whose hash and data disagree.
C16_HashReflectsData ==
    \A g \in Groups :
        /\ group_state[g].present => group_state[g].hash = hash_of_row(group_state[g])
        /\ group_state_tomorrow[g].present
              => group_state_tomorrow[g].hash = hash_of_row(group_state_tomorrow[g])

\* C16 witness: after an iteration cut short by a storage error at the second
\* group both rows exist, the row of the first group holds the data of this
\* snapshot, and its hash is the hash of its data
C16_Witness ==
    /\ storage_fault.slot = "today"
    /\ scrape_pc = "sleep"
    /\ group_state["1.1"].present
    /\ group_state["1.2"].present
    /\ group_state["1.1"].data_json # group_state["1.2"].data_json
    /\ group_state["1.1"].data_json = data_json_of(snapshot.today.groups[1].intervals)
    /\ group_state["1.1"].hash = hash_of_row(group_state["1.1"])

\* a list of interval strings is in canonical form: sorted, entries apart
CanonicalStrings(strs) ==
    /\ Canonical(MinutesOf(strs))
    /\ \A i \in 1..Len(strs) : strs[i].sep = "en"

\* a pass over a page whose wording is on record
PageStep == IterationStep /\ calc'.op = "page"

\* the jobs for (slot, g) a step created: put on the queue, or dropped on a full one
JobsCreated(slot, g) ==
    Cardinality({k \in 1..Len(NewJobs) : JobKey(NewJobs[k]) = [kind |-> slot, group_code |-> g]})
    + (IF [kind |-> slot, group_code |-> g] \in dropped' THEN 1 ELSE 0)

FetchFails == scrape_pc = "fetch" /\ scrape_pc' # "fetch" /\ ~snapshot'.present

\* the loop is in its poll sleep and will fetch again, or is fetching
LoopAlive ==
    /\ scrape_pc \in {"fetch", "sleep"}
    /\ scrape_pc = "sleep" => ENABLED (ScrapeWake /\ scrape_pc' = "fetch")

\* C18: fetch failure. When the fetch yields no snapshot the iteration is skipped:
\* no row of group_state or group_state_tomorrow is written, no job is enqueued or
\* dropped, the loop goes to its poll sleep, and from the sleep it fetches again.
C18_FetchFailureSkips ==
    /\ [][FetchFails =>
            /\ group_state' = group_state
            /\ group_state_tomorrow' = group_state_tomorrow
            /\ notify_queue' = notify_queue
            /\ dropped' = {}
            /\ scrape_pc' = "sleep"
         ]_vars
    /\ [](~snapshot.present => LoopAlive)

\* C18 witness: a fetch failed after an earlier pass had stored rows and queued
\* jobs; the loop sleeps with rows and queue in place
C18_Witness ==
    /\ ~snapshot.present
    /\ scrape_pc = "sleep"
    /\ group_state["1.1"].present
    /\ notify_queue # <<>>

\* the (slot, group) whose storage call raised in the pass just made
FaultedKey ==
    [kind |-> storage_fault'.slot,
     group_code |-> snapshot'[storage_fault'.slot].groups[storage_fault'.at].group_code]

\* the row of table group_state (kind "today") or group_state_tomorrow for a key
RowOf(gs, gst, key) == IF key.kind = "today" THEN gs[key.group_code] ELSE gst[key.group_code]

\* C19: storage failure on detection. If a read or write of the state store fails
\* while a (group, slot) is being detected, the pass creates no job for that
\* (group, slot) and leaves its row as it was; every job a pass puts on the queue
\* carries the date and the lists of the row that was written for it; and the loop
\* goes on to its poll sleep and the next fetch.
C19_StorageFailureNoJob ==
    /\ [][IterationStep =>
            /\ storage_fault'.slot # "none" =>
                  /\ \A k \in 1..Len(NewJobs) : JobKey(NewJobs[k]) # FaultedKey
                  /\ FaultedKey \notin dropped'
                  /\ RowOf(group_state', group_state_tomorrow', FaultedKey)
                        = RowOf(group_state, group_state_tomorrow, FaultedKey)
            /\ \A k \in 1..Len(NewJobs) :
                  LET j   == NewJobs[k]
                      row == RowOf(group_state', group_state_tomorrow', JobKey(j))
                  IN /\ row.present
                     /\ row.schedule_date = j.schedule_date
                     /\ row.data_json.off = j.off_intervals
                     /\ row.data_json.on = j.on_intervals
                     /\ row.data_json.maybe = j.maybe_intervals
            /\ scrape_pc' = "sleep"
         ]_vars
    /\ [](storage_fault.slot # "none" => LoopAlive)

\* C19 witness: a storage call for group 1.2 of tomorrow's section raised in a pass
\* whose today section had gone through; the row of 1.2 for tomorrow is not there,
\* today's jobs are on the queue, and the loop sleeps
C19_Witness ==
    /\ storage_fault.slot = "tomorrow"
    /\ scrape_pc = "sleep"
    /\ snapshot.today.present
    /\ ~group_state_tomorrow["1.2"].present
    /\ group_state["1.2"].present
    /\ notify_queue # <<>>
    /\ \A k \in 1..Len(notify_queue) : notify_queue[k].kind = "today"

\* C20: every change yields a job. For every (group, slot) whose row a pass
\* writes (the row was absent or held another hash), the same pass creates a job
\* for it, which is put on the queue or dropped because the queue is full; also
\* when a storage error hits a later group of the same pass.
C20_EveryChangeYieldsJob ==
    [][IterationStep =>
        \A slot \in Slots : \A g \in Groups :
            RowOf(group_state', group_state_tomorrow', [kind |-> slot, group_code |-> g])
               # RowOf(group_state, group_state_tomorrow, [kind |-> slot, group_code |-> g])
            => JobsCreated(slot, g) >= 1
      ]_vars

(***************************************************************************)
(* Properties of the tomorrow slot (SpecTomorrow)                          *)
(***************************************************************************)

\* C21: every tomorrow job a pass puts on the queue carries
\* is_first_for_this_date = TRUE exactly when the group had no tomorrow row before
\* the pass or the row's schedule_date differs from the job's schedule_date; a
\* change of the intervals of a date already stored carries FALSE.
C21_FirstForThisDate ==
    [][IterationStep =>
        \A k \in 1..Len(NewJobs) :
            LET j   == NewJobs[k]
                old == group_state_tomorrow[j.group_code]
            IN j.kind = "tomorrow" =>
                /\ j.is_first_for_this_date
                      = (~old.present \/ old.schedule_date # j.schedule_date)
                /\ (old.present /\ old.schedule_date = j.schedule_date
                       /\ old.data_json # data_json_of([off |-> j.off_intervals,
                                                       on |-> j.on_intervals,
                                                       maybe |-> j.maybe_intervals]))
                      => ~j.is_first_for_this_date
      ]_vars

\* C21 witness: the queue holds the job of 1.2 for a date (its first) and behind it
\* a job of 1.1 for the same date that is not the first: the intervals of 1.1
\* changed after that date had been stored
C21_Witness ==
    /\ Len(notify_queue) = 2
    /\ notify_queue[1].kind = "tomorrow"
    /\ notify_queue[1].group_code = "1.2"
    /\ notify_queue[1].is_first_for_this_date
    /\ notify_queue[2].kind = "tomorrow"
    /\ notify_queue[2].group_code = "1.1"
    /\ notify_queue[2].schedule_date = notify_queue[1].schedule_date
    /\ ~notify_queue[2].is_first_for_this_date
    /\ group_state_tomorrow["1.1"].schedule_date = notify_queue[2].schedule_date

(***************************************************************************)
(* Properties of the dispatcher's bookkeeping (SpecDispatch)               *)
(***************************************************************************)

\* last_sent_at of a user; a user without a row has none
LastSentAt(table, u) == IF table[u].present THEN table[u].last_sent_at ELSE SqlNull

\* the step in which the package call for subscribers[idx] ends
AttemptEnds == worker_pc \in {"send", "inflight"} /\ worker_pc' = "pause"

\* C22: a user's last_sent_at changes only in the step in which a delivery to that
\* user succeeded. A rate-limited skip, a delivery error and a timeout each leave
\* the users table as it is, and a rate-limited skip sends no message.
C22_TouchOnlyOnSuccess ==
    [][ /\ \A u \in Users :
            LastSentAt(users', u) # LastSentAt(users, u) =>
                /\ worker_pc = "inflight"
                /\ subscribers[idx].tg_user_id = u
                /\ last_outcome' = "sent"
                /\ sent_count' = sent_count + 1
        /\ (AttemptEnds /\ last_outcome' \in {"skipped", "failed", "timeout"})
              => users' = users /\ sent_count' = sent_count
        /\ (AttemptEnds /\ last_outcome' = "skipped") => worker_pc = "send"
      ]_vars

\* C22 witness: in one job the delivery to the first subscriber succeeded and the
\* one to the second timed out; the first has a last_sent_at, the second has none
C22_Witness ==
    /\ worker_pc = "pause"
    /\ Len(subscribers) = 2 /\ idx = 2
    /\ last_outcome = "timeout"
    /\ sent_count = 1
    /\ users[subscribers[1].tg_user_id].last_sent_at.kind = "iso"
    /\ LastSentAt(users, subscribers[2].tg_user_id) = SqlNull

\* q is an initial part of r
IsPrefix(q, r) == Len(q) <= Len(r) /\ SubSeq(r, 1, Len(q)) = q

\* C23: jobs leave the queue in the order they were put on it, each job is taken
\* off once and never put back, and the dispatcher takes the next job only when
\* the job in hand is over, all its subscribers gone through. In every step the
\* queue either loses its head or gains jobs at its tail; it loses its head only
\* to a dispatcher with no job in hand; a job in hand is the former head, stays the
\* same until it ends, and ends only after its last subscriber.
C23_FifoOneJobAtATime ==
    [][ /\ \/ (notify_queue # <<>> /\ notify_queue' = Tail(notify_queue))
           \/ IsPrefix(notify_queue, notify_queue')
        /\ notify_queue' # notify_queue /\ ~IterationStep
              => /\ notify_queue # <<>>
                 /\ notify_queue' = Tail(notify_queue)
                 /\ worker_pc = "get"
                 /\ ~job.present
                 /\ job'.present
                       => job' = (Head(notify_queue) @@ [present |-> TRUE])
        /\ IterationStep => IsPrefix(notify_queue, notify_queue')
        /\ (~job.present /\ job'.present)
              => notify_queue # <<>> /\ notify_queue' = Tail(notify_queue)
        /\ (job.present /\ job'.present) => job' = job /\ subscribers' = subscribers
        /\ (job.present /\ ~job'.present)
              => /\ worker_pc = "pause"
                 /\ idx = Len(subscribers)
                 /\ attempts = Len(subscribers)
                 /\ notify_queue' = notify_queue
      ]_vars

\* C23 witness: the dispatcher is at the second subscriber of today's job of 1.1
\* while today's job of 1.2, put on the queue right behind it, waits at the head
C23_Witness ==
    /\ job.present
    /\ job.kind = "today" /\ job.group_code = "1.1"
    /\ worker_pc = "inflight"
    /\ idx = 2
    /\ notify_queue # <<>>
    /\ notify_queue[1].kind = "today" /\ notify_queue[1].group_code = "1.2"

\* C24: within one job every resolved subscriber gets at most one delivery
\* attempt: the subscriber list names no user twice, the n-th package call of a
\* job is for the n-th subscriber, and after an attempt the dispatcher moves to
\* the next subscriber or ends the job. An attempt cut by the delivery timeout is
\* abandoned: it is not counted as sent and the same subscriber is not tried again.
C24_OneAttemptNoRetry ==
    /\ [](job.present =>
            /\ \A i, k \in 1..Len(subscribers) :
                  subscribers[i].tg_user_id = subscribers[k].tg_user_id => i = k
            /\ attempts \in {idx - 1, idx}
            /\ sent_count <= attempts)
    /\ [][ /\ (job.present /\ job'.present /\ attempts' # attempts)
                => /\ worker_pc = "send"
                   /\ attempts' = attempts + 1
                   /\ attempts' = idx
           /\ (job.present /\ job'.present) => idx' \in {idx, idx + 1}
           /\ (worker_pc = "pause" /\ worker_pc' = "send") => idx' = idx + 1
           /\ (worker_pc = "inflight" /\ worker_pc' # "inflight" /\ last_outcome' = "timeout")
                => /\ worker_pc' = "pause"
                   /\ sent_count' = sent_count
                   /\ idx' = idx
                   /\ attempts' = attempts
         ]_vars

\* C24 witness: the attempt for the first of two subscribers was cut by the
\* timeout; it is not counted and the dispatcher is about to move on
C24_Witness ==
    /\ worker_pc = "pause"
    /\ Len(subscribers) = 2
    /\ idx = 1 /\ attempts = 1
    /\ last_outcome = "timeout"
    /\ sent_count = 0

(***************************************************************************)
(* Properties of the rows of the two slots (SpecIngest)                    *)
(***************************************************************************)

\* the row detection writes for group g from a slot of a snapshot
RowFrom(snap, slot, g) ==
    LET intervals == EntryOf(snap, slot, g).intervals
    IN [present |-> TRUE,
        schedule_date |-> snap[slot].schedule_date,
        hash |-> compute_group_hash(snap[slot].schedule_date, intervals.off,
                                    intervals.on, intervals.maybe),
        data_json |-> data_json_of(intervals)]

\* C25: the slots are independent rows. A pass changes the row of a (group, slot)
\* only when the page shows that slot and the row was absent or held another
\* hash, and then the row becomes exactly what the page gives for that group and
\* slot (last write wins); every other row stays as it was. A pass over tomorrow's
\* section alone leaves every today row, hash included, as it was, and a pass over
\* today's section alone leaves every tomorrow row as it was.
C25_SlotsIndependent ==
    [][IterationStep =>
        /\ \A slot \in Slots : \A g \in Groups :
              LET key == [kind |-> slot, group_code |-> g]
                  old == RowOf(group_state, group_state_tomorrow, key)
                  new == RowOf(group_state', group_state_tomorrow', key)
              IN new # old =>
                    /\ snapshot'[slot].present
                    /\ new = RowFrom(snapshot', slot, g)
                    /\ ~old.present \/ old.hash # new.hash
        /\ ~snapshot'.today.present => group_state' = group_state
        /\ ~snapshot'.tomorrow.present => group_state_tomorrow' = group_state_tomorrow
      ]_vars

\* C25 witness: after a pass over tomorrow's section alone the tomorrow row of 1.1
\* holds that section's data while the today row of 1.1 still holds today's date
\* and other intervals
C25_Witness ==
    /\ snapshot.present
    /\ ~snapshot.today.present
    /\ storage_fault = NoFault
    /\ group_state["1.1"].present
    /\ group_state_tomorrow["1.1"] = RowFrom(snapshot, "tomorrow", "1.1")
    /\ group_state["1.1"].schedule_date # group_state_tomorrow["1.1"].schedule_date
    /\ group_state["1.1"].data_json # group_state_tomorrow["1.1"].data_json
    /\ group_state["1.1"].hash = hash_of_row(group_state["1.1"])

(***************************************************************************)
(* Properties of incomplete sections (SpecParse)                           *)
(***************************************************************************)

\* the date of the section of a slot, by the clock
SlotDate(today_str, slot) == IF slot = "today" THEN today_str ELSE today_str + 1

\* the section lines give data for every group
AllGroups(section) ==
    \A g \in Groups : \E i \in 1..Len(section.lines) :
        section.lines[i].group_code = g /\ section.lines[i].off # <<>>

\* a fetch whose page is on record
FetchStep == scrape_pc = "fetch" /\ scrape_pc' = "sleep" /\ calc'.op = "fetched"

\* C26: if the section of a slot on the page does not give data for every group,
\* the fetch produces no snapshot for that slot, and the pass writes no row of
\* that slot and creates no job of that slot (none enqueued, none dropped), as
\* after a fetch that failed.
C26_IncompleteSectionSkipped ==
    [][FetchStep =>
        \A slot \in Slots :
            LET section == calc'.page[SlotDate(calc'.today_str, slot)]
            IN (section.present /\ ~AllGroups(section)) =>
                  /\ ~snapshot'.present \/ ~snapshot'[slot].present
                  /\ RowOf(group_state', group_state_tomorrow', [kind |-> slot, group_code |-> "1.1"])
                       = RowOf(group_state, group_state_tomorrow, [kind |-> slot, group_code |-> "1.1"])
                  /\ RowOf(group_state', group_state_tomorrow', [kind |-> slot, group_code |-> "1.2"])
                       = RowOf(group_state, group_state_tomorrow, [kind |-> slot, group_code |-> "1.2"])
                  /\ \A k \in 1..Len(NewJobs) : NewJobs[k].kind # slot
                  /\ \A d \in dropped' : d.kind # slot
      ]_vars

\* C26 witness: the page showed today's section complete and tomorrow's without
\* the line of 1.2; today's rows are written and queued, tomorrow has no snapshot
\* and no row
C26_Witness ==
    /\ calc.op = "fetched"
    /\ calc.page[1].present /\ AllGroups(calc.page[1])
    /\ calc.page[2].present /\ ~AllGroups(calc.page[2])
    /\ snapshot.present
    /\ snapshot.today.present
    /\ ~snapshot.tomorrow.present
    /\ group_state["1.1"].present
    /\ ~group_state_tomorrow["1.1"].present
    /\ Len(notify_queue) = 2

(***************************************************************************)
(* Properties of the order of writes and enqueues (SpecIngest)             *)
(***************************************************************************)

\* C27: store before notify. When a pass puts a job of a slot on the queue, every
\* row of that slot already holds what the page of that pass gives for its group:
\* all the writes of the slot came before its first enqueue. So whenever a job of
\* a slot waits on the queue, every group of that slot has a stored row, none of
\* them older than the pass the job comes from.
C27_StoreBeforeNotify ==
    /\ [][IterationStep =>
            \A slot \in Slots :
                (\E k \in 1..Len(NewJobs) : NewJobs[k].kind = slot) =>
                    /\ snapshot'[slot].present
                    /\ \A g \in Groups :
                          RowOf(group_state', group_state_tomorrow',
                                [kind |-> slot, group_code |-> g])
                             = RowFrom(snapshot', slot, g)
         ]_vars
    /\ [](\A k \in 1..Len(notify_queue) : \A g \in Groups :
             RowOf(group_state, group_state_tomorrow,
                   [kind |-> notify_queue[k].kind, group_code |-> g]).present)

\* C27 witness: a pass over a page with both sections has written all four rows
\* from the page; today's two jobs are on the queue and tomorrow's were dropped
\* on the full queue, their rows written all the same
C27_Witness ==
    /\ storage_fault = NoFault
    /\ scrape_pc = "sleep"
    /\ snapshot.present /\ snapshot.today.present /\ snapshot.tomorrow.present
    /\ Len(notify_queue) = 2
    /\ \A k \in 1..Len(notify_queue) : notify_queue[k].kind = "today"
    /\ \A slot \in Slots : \A g \in Groups :
          RowOf(group_state, group_state_tomorrow, [kind |-> slot, group_code |-> g])
             = RowFrom(snapshot, slot, g)
    /\ \E d \in dropped : d.kind = "tomorrow"

\* the per-job policy: every job of the batch is tested by itself and dropped if
\* the queue is full at its turn
RECURSIVE enqueue_each(_, _)
enqueue_each(q, jobs) ==
    IF jobs = <<>> THEN q
    ELSE IF full(q) THEN enqueue_each(q, Tail(jobs))
    ELSE enqueue_each(put_nowait(q, Head(jobs)), Tail(jobs))

\* the step in which the enqueue loop ran over a batch on record
EnqueueStep == scrape_pc = "fetch" /\ scrape_pc' = "sleep" /\ calc'.op = "enqueued"

\* C28: break on a full queue drops the same jobs as testing every job would. The
\* enqueue loop of a batch is one step in which the dispatcher takes nothing off
\* the queue (the queue before is an initial part of the queue after, the
\* dispatcher stands still), and the queue after the loop is the queue the
\* per-job policy gives for the same batch: the jobs enqueued, and so the jobs
\* dropped, are the same.
C28_BreakEqualsPerJobDrop ==
    [][EnqueueStep =>
        LET each == enqueue_each(notify_queue, calc'.batch)
            kept == {JobKey(each[k]) : k \in (Len(notify_queue) + 1)..Len(each)}
            all  == {JobKey(calc'.batch[k]) : k \in 1..Len(calc'.batch)}
        IN /\ IsPrefix(notify_queue, notify_queue')
           /\ UNCHANGED worker_vars
           /\ notify_queue' = each
           /\ dropped' = all \ kept
      ]_vars

\* C28 witness: the loop found one job on the queue from before, put the first
\* job of a batch of two on it and dropped the second at the break
C28_Witness ==
    /\ calc.op = "enqueued"
    /\ scrape_pc = "sleep"
    /\ Len(calc.batch) = 2
    /\ Len(notify_queue) = NOTIFICATION_QUEUE_MAXSIZE
    /\ notify_queue[Len(notify_queue)] = calc.batch[1]
    /\ dropped = {JobKey(calc.batch[2])}

(***************************************************************************)
(* Properties of the command handlers and of the rate limit across jobs    *)
(* (SpecDispatch)                                                          *)
(***************************************************************************)

\* C29: /start by a user who already has a row leaves the row's group_code and
\* is_subscribed as they were, so whoever was a delivery target of a group before
\* the command is one after it.
C29_StartKeepsSubscription ==
    [][\A u \in Users :
            (users[u].present /\ cmd_start(u)) =>
                /\ users'[u].group_code = users[u].group_code
                /\ users'[u].is_subscribed = users[u].is_subscribed
                /\ \A g \in Groups : u \in SubscribedTo(g) => u \in SubscribedTo(g)'
      ]_vars

\* the step in which the package call for subscribers[idx] makes its anti-spam check
PackageChecks == worker_pc = "send" /\ worker_pc' \in {"inflight", "pause"}

\* the step in which a delivery of the dispatcher succeeds
Delivers == worker_pc = "inflight" /\ worker_pc' = "pause" /\ last_outcome' = "sent"

\* C30: for each user, over the jobs of both slots, two successful deliveries of
\* the dispatcher are at least 60 / MAX_SEND_PER_MINUTE seconds apart, measured
\* from the last_sent_at the earlier one recorded to the check of the later one:
\* a package check for a user with a recorded last_sent_at lets the send go out
\* exactly when that much time has passed, a skipped user gets nothing and keeps
\* the recorded time, and a delivery records a time at least that much later.
C30_DeliveriesSpaced ==
    [][ /\ PackageChecks =>
            LET row == users[subscribers[idx].tg_user_id]
            IN row.last_sent_at.kind = "iso" =>
                 /\ worker_pc' = "inflight"
                      <=> (now - row.last_sent_at.t) * MAX_SEND_PER_MINUTE >= 60
                 /\ worker_pc' = "pause"
                      => last_outcome' = "skipped" /\ users' = users
                                                   /\ sent_count' = sent_count
        /\ Delivers =>
            LET u == subscribers[idx].tg_user_id
            IN /\ users'[u].last_sent_at = IsoTime(now)
               /\ users[u].last_sent_at.kind = "iso" =>
                    (users'[u].last_sent_at.t - users[u].last_sent_at.t)
                        * MAX_SEND_PER_MINUTE >= 60
      ]_vars

\* C30 witness: the tomorrow job of a group is being dispatched at the instant at
\* which its only subscriber's last delivery was recorded, the today row of the
\* group is stored, and the subscriber has just been skipped
C30_Witness ==
    /\ worker_pc = "pause"
    /\ job.present /\ job.kind = "tomorrow"
    /\ group_state[job.group_code].present
    /\ Len(subscribers) = 1 /\ idx = 1
    /\ last_outcome = "skipped" /\ sent_count = 0
    /\ users[subscribers[1].tg_user_id].last_sent_at = IsoTime(now)

====
